---- MODULE Spec2Model ----
(***************************************************************************)
(* Earth Image Downloader (eimg): the credential store of src/main.py.     *)
(*                                                                         *)
(* Strings and byte strings are sequences of character codes (ASCII), so   *)
(* that the encodings the code applies (base64, hex) are computed and not  *)
(* assumed.  Python's None is the one-element sequence None.                *)
(***************************************************************************)
EXTENDS Integers, Sequences, FiniteSets, Bags, TLC

\* ------------------------------------------------------------------------
\* Values
\* ------------------------------------------------------------------------

\* Python's None, kept apart from every string (no character code is negative).
None == <<-1>>

\* Python truthiness of a str-or-None value: None and "" are falsy.
Truthy(v) == v # None /\ v # <<>>

Min(a, b) == IF a < b THEN a ELSE b

\* F(e), with e computed once however often F reads its argument: the
\* local name of a value that is used more than once.
With(e, F(_)) == CHOOSE r \in { F(x) : x \in { e } } : TRUE

\* ------------------------------------------------------------------------
\* base64 (the standard library's urlsafe_b64encode / urlsafe_b64decode)
\* ------------------------------------------------------------------------

\* The URL-safe alphabet: value 0..63 -> character code.
B64Char(v) ==
    IF v < 26 THEN 65 + v
    ELSE IF v < 52 THEN 97 + (v - 26)
    ELSE IF v < 62 THEN 48 + (v - 52)
    ELSE IF v = 62 THEN 45
    ELSE 95

\* The decoding table after the urlsafe translation ('-' -> '+', '_' -> '/'):
\* both spellings of 62 and 63 are accepted; 64 marks a character outside
\* the alphabet.
B64Value(c) ==
    IF c >= 65 /\ c <= 90 THEN c - 65
    ELSE IF c >= 97 /\ c <= 122 THEN c - 97 + 26
    ELSE IF c >= 48 /\ c <= 57 THEN c - 48 + 52
    ELSE IF c = 43 \/ c = 45 THEN 62
    ELSE IF c = 47 \/ c = 95 THEN 63
    ELSE 64

PadChar == 61

\* base64.urlsafe_b64encode: every 3 bytes give 4 characters; a last group
\* of 1 or 2 bytes is filled with zero bits and '=' characters.
urlsafe_b64encode(b) ==
    With(b \o << >>, LAMBDA s :
        LET n == Len(s)
            byte(k) == IF k <= n THEN s[k] ELSE 0
        IN  [j \in 1..(4 * ((n + 2) \div 3)) |->
                LET g  == 3 * ((j - 1) \div 4)
                    k  == (j - 1) % 4
                IN  IF k = 0 THEN B64Char(byte(g + 1) \div 4)
                    ELSE IF k = 1 THEN
                        B64Char((byte(g + 1) % 4) * 16 + (byte(g + 2) \div 16))
                    ELSE IF k = 2 THEN
                        IF g + 2 > n THEN PadChar
                        ELSE B64Char((byte(g + 2) % 16) * 4 + (byte(g + 3) \div 64))
                    ELSE
                        IF g + 3 > n THEN PadChar ELSE B64Char(byte(g + 3) % 64)]
            \o << >>)

\* A character that carries 6 bits.
IsB64Data(c) == c # PadChar /\ B64Value(c) < 64

\* Number of data characters of s before position i.
DataBefore(s, i) == Len(SelectSeq(SubSeq(s, 1, i - 1), IsB64Data))

\* The positions of s where binascii.a2b_base64 stops: an '=' that completes
\* a group (the 3rd character of a group followed by one '=', or the 2nd
\* followed by two).
A2bStops(s) ==
    LET pads == { i \in 1..Len(s) : s[i] = PadChar }
    IN  { i \in pads :
            With(DataBefore(s, i), LAMBDA d :
                \/ d % 4 = 3
                \/ /\ d % 4 = 2
                   /\ \E j \in pads : j < i /\ DataBefore(s, j) = d) }

\* The 6-bit characters a2b_base64 decodes: those before the first stop.
A2bData(s) ==
    With(A2bStops(s), LAMBDA stops :
        LET end == IF stops = {} THEN Len(s) + 1
                   ELSE CHOOSE i \in stops : \A j \in stops : i <= j
        IN  [padded |-> stops # {},
             data |-> SelectSeq(SubSeq(s, 1, end - 1), IsB64Data)])

\* binascii.a2b_base64 in its default (non-strict) mode, which
\* urlsafe_b64decode calls: characters outside the alphabet are skipped, the
\* bits left over in the last character of a group are dropped, and decoding
\* stops at the first '=' that completes a group.  Data that ends inside a
\* group without that padding raises binascii.Error ([ok |-> FALSE]).
urlsafe_b64decode(s) ==
    With(s \o << >>, LAMBDA t :
    With(A2bData(t), LAMBDA a :
        LET v(k) == B64Value(a.data[k])
            cnt == Len(a.data)
            rem == cnt % 4
            nbytes == 3 * (cnt \div 4)
                        + (IF rem = 3 THEN 2 ELSE IF rem = 2 THEN 1 ELSE 0)
        IN  IF ~a.padded /\ rem # 0 THEN [ok |-> FALSE, val |-> <<>>]
            ELSE [ok |-> TRUE,
                  val |-> [m \in 1..nbytes |->
                            LET g == 4 * ((m - 1) \div 3)
                                r == (m - 1) % 3
                            IN  IF r = 0 THEN v(g + 1) * 4 + (v(g + 2) \div 16)
                                ELSE IF r = 1
                                THEN (v(g + 2) % 16) * 16 + (v(g + 3) \div 4)
                                ELSE (v(g + 3) % 4) * 64 + v(g + 4)]
                          \o << >>]))

\* ------------------------------------------------------------------------
\* Character classes of str.strip() and str.isalnum() on ASCII text
\* ------------------------------------------------------------------------

IsSpace(c) == c \in {9, 10, 11, 12, 13, 28, 29, 30, 31, 32}

IsAlnumChar(c) ==
    \/ (c >= 48 /\ c <= 57)
    \/ (c >= 65 /\ c <= 90)
    \/ (c >= 97 /\ c <= 122)

RECURSIVE LStrip(_)
LStrip(s) ==
    IF s # <<>> /\ IsSpace(Head(s)) THEN LStrip(Tail(s)) ELSE s

RECURSIVE RStrip(_)
RStrip(s) ==
    IF s # <<>> /\ IsSpace(s[Len(s)]) THEN RStrip(SubSeq(s, 1, Len(s) - 1)) ELSE s

\* str.strip()
strip(s) == With(LStrip(s), RStrip)

\* str.replace(c, '')
Remove(s, c) == SelectSeq(s, LAMBDA x : x # c)

\* str.isalnum(): non-empty and every character a letter or a digit.
isalnum(s) == s # <<>> /\ \A i \in 1..Len(s) : IsAlnumChar(s[i])

\* bytes.decode(): byte strings of the model are ASCII text; any byte above
\* 127 is an invalid UTF-8 sequence here and raises.
Utf8DecodeOk(b) == \A i \in 1..Len(b) : b[i] >= 0 /\ b[i] < 128

\* ------------------------------------------------------------------------
\* Digests.  SHA-256 and PBKDF2 are stood for by a 16-bit polynomial digest:
\* deterministic, computed from every byte, and free of collisions on the
\* inputs of this model other than the collision HMAC itself has.
\* ------------------------------------------------------------------------

DigestBits == 65536

\* The weighted bytes of b as a bag: position i occurs as often as its
\* weighted byte says, so that the bag's cardinality is their sum.
WeightedBytes(b) ==
    [i \in 1..Len(b) |->
        1 + (((b[i] + 7) * (i * i + 3 * i + 1)) % DigestBits)]

PolyDigest(b, seed) ==
    With(b \o << >>, LAMBDA s :
        IF s = <<>> THEN seed % DigestBits
        ELSE (BagCardinality(WeightedBytes(s)) + 256 * Len(s) + seed) % DigestBits)

HexDigit(v) == IF v < 10 THEN 48 + v ELSE 97 + (v - 10)

\* hashlib.sha256(b).hexdigest()
Sha256Hex(b) ==
    With(PolyDigest(b, 0), LAMBDA h :
        << HexDigit(h \div 4096), HexDigit((h \div 256) % 16),
           HexDigit((h \div 16) % 16), HexDigit(h % 16) >>)

\* SecurityManager.hash_string
hash_string(data) ==
    IF ~Truthy(data) THEN None ELSE Sha256Hex(data)

\* ------------------------------------------------------------------------
\* Key derivation: PBKDF2HMAC(SHA256, salt, iterations).derive(password)
\* ------------------------------------------------------------------------

\* self.salt = b'eimg_salt_2025_stasx'
salt == << 101, 105, 109, 103, 95, 115, 97, 108, 116, 95,
           50, 48, 50, 53, 95, 115, 116, 97, 115, 120 >>

\* Block size of HMAC-SHA256 in bytes.
HmacBlockSize == 64

\* HMAC uses the password as its key, padded on the right with zero bytes
\* to the block size (passwords of the model are shorter than one block).
HmacKey(password) ==
    password \o [i \in 1..(HmacBlockSize - Len(password)) |-> 0]

\* The derived key: one signing byte and one encryption byte (the library
\* derives 32 bytes and Fernet splits them 16/16).
Pbkdf2(password) ==
    With(PolyDigest(HmacKey(password) \o salt, 1), LAMBDA h :
        << h \div 256, h % 256 >>)

\* SecurityManager._generate_key
generate_key(password, crypto_available) ==
    IF ~crypto_available THEN None
    ELSE urlsafe_b64encode(Pbkdf2(password))

\* ------------------------------------------------------------------------
\* Fernet: token = base64( 0x80 | iv | ciphertext | hmac ).  The timestamp
\* field is left out: decrypt is called without a ttl and never reads it.
\* ------------------------------------------------------------------------

FernetVersion == 128

\* Length of version and iv in front of the ciphertext.
FernetHeaderLen == 2

\* The cipher: length preserving, keyed by the encryption byte and the iv.
CipherEncrypt(enc, iv, pt) ==
    [i \in 1..Len(pt) |-> (pt[i] + enc + iv + i) % 256] \o << >>

\* A decryption that forgets the position-dependent part of the key stream.
CipherDecryptNoPos(enc, iv, ct) ==
    [i \in 1..Len(ct) |-> (ct[i] + 1024 - enc - iv) % 256] \o << >>

CipherDecrypt(enc, iv, ct) ==
    [i \in 1..Len(ct) |-> (ct[i] + 1024 - enc - iv - i) % 256] \o << >>

\* The tag: one byte per signed byte, so that distinct signed strings never
\* share a tag under one key.
Hmac(sign, body) ==
    [i \in 1..Len(body) |-> (body[i] + sign + 3 * i) % 256] \o << >>

\* An encrypt that uses one fixed iv instead of the one drawn.
FernetEncryptFixedIV(key, data, iv) ==
    With(urlsafe_b64decode(key).val, LAMBDA kb :
    With(data \o << >>, LAMBDA pt :
    With(<< FernetVersion, 0 >> \o CipherEncrypt(kb[2], 0, pt), LAMBDA body :
        urlsafe_b64encode(body \o Hmac(kb[1], body)))))

\* Fernet(key).encrypt(data) with the random iv it draws.
FernetEncrypt(key, data, iv) ==
    With(urlsafe_b64decode(key).val, LAMBDA kb :
    With(data \o << >>, LAMBDA pt :
    With(<< FernetVersion, iv >> \o CipherEncrypt(kb[2], iv, pt), LAMBDA body :
        urlsafe_b64encode(body \o Hmac(kb[1], body)))))

\* Fernet(key).decrypt(token): [ok |-> FALSE] stands for InvalidToken.
FernetDecrypt(key, token) ==
    With(urlsafe_b64decode(key).val, LAMBDA kb :
    With(urlsafe_b64decode(token), LAMBDA d :
        LET n == Len(d.val) \div 2 IN
        IF ~d.ok \/ d.val = <<>> \/ d.val[1] # FernetVersion
           \/ Len(d.val) % 2 # 0 \/ n < FernetHeaderLen
        THEN [ok |-> FALSE, val |-> <<>>]
        ELSE
            With(SubSeq(d.val, 1, n), LAMBDA body :
                IF Hmac(kb[1], body) # SubSeq(d.val, n + 1, Len(d.val))
                THEN [ok |-> FALSE, val |-> <<>>]
                ELSE [ok |-> TRUE,
                      val |-> CipherDecrypt(kb[2], body[2],
                                            SubSeq(body, FernetHeaderLen + 1, n))])))

\* ------------------------------------------------------------------------
\* SecurityManager
\* ------------------------------------------------------------------------

\* An encrypt_data that derives the key before it looks at its arguments.
encrypt_data_run_key_first(data, password, crypto_available, iv) ==
    IF ~crypto_available THEN [ret |-> None, calls |-> <<>>]
    ELSE With(generate_key(password, crypto_available), LAMBDA key :
         IF ~Truthy(data) \/ ~Truthy(password) \/ ~Truthy(key)
         THEN [ret |-> None, calls |-> << "derive" >>]
         ELSE [ret |-> urlsafe_b64encode(FernetEncrypt(key, data, iv)),
               calls |-> << "derive", "encrypt" >>])

\* SecurityManager.encrypt_data, with the return value the cryptographic
\* calls made on the way: "derive" is kdf.derive in _generate_key, "encrypt"
\* is Fernet.encrypt.
encrypt_data_run(data, password, crypto_available, iv) ==
    IF ~crypto_available THEN [ret |-> None, calls |-> <<>>]
    ELSE IF ~Truthy(data) \/ ~Truthy(password)
    THEN [ret |-> None, calls |-> <<>>]
    ELSE With(generate_key(password, crypto_available), LAMBDA key :
         IF ~Truthy(key) THEN [ret |-> None, calls |-> << "derive" >>]
         ELSE [ret |-> urlsafe_b64encode(FernetEncrypt(key, data, iv)),
               calls |-> << "derive", "encrypt" >>])

\* SecurityManager.encrypt_data: its return value.
encrypt_data(data, password, crypto_available, iv) ==
    encrypt_data_run(data, password, crypto_available, iv).ret

\* A decrypt_data that hands the stored string to Fernet without undoing
\* the base64 encoding encrypt_data applied.
decrypt_data_without_b64decode(encrypted_data, password, crypto_available) ==
    IF ~crypto_available THEN None
    ELSE IF ~Truthy(encrypted_data) \/ ~Truthy(password) THEN None
    ELSE With(generate_key(password, crypto_available), LAMBDA key :
         IF ~Truthy(key) THEN None
         ELSE With(FernetDecrypt(key, encrypted_data), LAMBDA r :
              IF ~r.ok \/ ~Utf8DecodeOk(r.val) THEN None
              ELSE r.val))

\* str(e) of the binascii.Error that a2b_base64 raises on s (the number of
\* data characters that the second message names is left out).
B64ErrorMessage(s) ==
    IF Len(A2bData(s).data) % 4 = 1
    THEN "Invalid base64-encoded string: number of data characters cannot be 1 more than a multiple of 4"
    ELSE "Incorrect padding"

\* print(f"Decryption error: {e}") of decrypt_data: the line for str(e).
DecryptionError(message) == [line |-> "Decryption error: {e}", e |-> message]

\* SecurityManager.decrypt_data, with the return value the cryptographic
\* calls made on the way ("derive" is kdf.derive in _generate_key, "decrypt"
\* is Fernet.decrypt) and the lines printed.  Fernet.decrypt raises
\* InvalidToken, whose str() is empty.
decrypt_data_run(encrypted_data, password, crypto_available) ==
    IF ~crypto_available
    THEN [ret |-> None, calls |-> <<>>,
          printed |-> << [line |-> "Decryption not available", e |-> ""] >>]
    ELSE IF ~Truthy(encrypted_data) \/ ~Truthy(password)
    THEN [ret |-> None, calls |-> <<>>, printed |-> <<>>]
    ELSE With(generate_key(password, crypto_available), LAMBDA key :
         IF ~Truthy(key)
         THEN [ret |-> None, calls |-> << "derive" >>, printed |-> <<>>]
         ELSE With(urlsafe_b64decode(encrypted_data), LAMBDA eb :
              IF ~eb.ok
              THEN [ret |-> None, calls |-> << "derive" >>,
                    printed |-> << DecryptionError(B64ErrorMessage(encrypted_data)) >>]
              ELSE With(FernetDecrypt(key, eb.val), LAMBDA r :
                   IF ~r.ok
                   THEN [ret |-> None, calls |-> << "derive", "decrypt" >>,
                         printed |-> << DecryptionError("") >>]
                   ELSE IF ~Utf8DecodeOk(r.val)
                   THEN [ret |-> None, calls |-> << "derive", "decrypt" >>,
                         printed |-> << DecryptionError("'utf-8' codec can't decode") >>]
                   ELSE [ret |-> r.val, calls |-> << "derive", "decrypt" >>,
                         printed |-> <<>>])))

\* SecurityManager.decrypt_data: its return value.
decrypt_data(encrypted_data, password, crypto_available) ==
    decrypt_data_run(encrypted_data, password, crypto_available).ret

\* A validate_api_key_format without the length test.
validate_api_key_format_any_length(api_key) ==
    IF ~Truthy(api_key) THEN FALSE
    ELSE isalnum(Remove(Remove(api_key, 45), 95))

\* SecurityManager.validate_api_key_format
validate_api_key_format(api_key) ==
    IF ~Truthy(api_key) THEN FALSE
    ELSE IF Len(strip(api_key)) < 20 THEN FALSE
    ELSE isalnum(Remove(Remove(api_key, 45), 95))

\* ------------------------------------------------------------------------
\* Inputs
\* ------------------------------------------------------------------------

\* "ABCDEFGHIJKLMNOPQRST": 20 letters.
KeyA == << 65, 66, 67, 68, 69, 70, 71, 72, 73, 74,
          75, 76, 77, 78, 79, 80, 81, 82, 83, 84 >>

\* "0123456789abcdefghijk": 21 letters and digits.
KeyB == << 48, 49, 50, 51, 52, 53, 54, 55, 56, 57,
          97, 98, 99, 100, 101, 102, 103, 104, 105, 106, 107 >>

\* "short"
KeyShort == << 115, 104, 111, 114, 116 >>

\* The API keys a caller passes to set_api_key.
ApiKeys == { KeyA, KeyB, KeyShort }

\* "passw0rd"
PwA == << 112, 97, 115, 115, 119, 48, 114, 100 >>

\* "hunter22"
PwB == << 104, 117, 110, 116, 101, 114, 50, 50 >>

\* "passw0rd" followed by one NUL character
PwANul == PwA \o << 0 >>

\* "short"
PwShort == << 115, 104, 111, 114, 116 >>

\* The lines a user types at a passphrase prompt.
Passwords == { PwA, PwB, PwANul, PwShort, <<>> }

\* A prompt entry that is Ctrl-C (KeyboardInterrupt) instead of a line.
Interrupt == <<-2>>

\* The answers to a passphrase prompt of the downloader.
Entries == { PwA, PwShort, <<>>, Interrupt }

\* Largest iv byte the random source supplies.
MaxIV == 0

\* The plaintexts handed to encrypt_data.
Plaintexts == { KeyA, KeyB, KeyShort, <<>> }

\* The lines a user types at the wipe confirmation: "y", "Y ", "n", "".
Lines == { << 121 >>, << 89, 32 >>, << 110 >>, <<>> }

\* ------------------------------------------------------------------------
\* The calls self.security.encrypt_data and self.security.decrypt_data.  The
\* results for the inputs above are computed once and looked up afterwards;
\* any other input is computed on the spot.
\* ------------------------------------------------------------------------

\* The function f with every value computed (f @@ g is f where f is defined).
Tabulated(f) == f @@ << >>

EncryptInputs ==
    Plaintexts \X (Passwords \cup (Entries \ { Interrupt })) \X (0..MaxIV)

Ciphertexts ==
    Tabulated([x \in EncryptInputs |-> encrypt_data(x[1], x[2], TRUE, x[3])])

security_encrypt_data(data, password, crypto_available, iv) ==
    IF crypto_available /\ << data, password, iv >> \in EncryptInputs
    THEN Ciphertexts[<< data, password, iv >>]
    ELSE encrypt_data(data, password, crypto_available, iv)

DecryptInputs ==
    { Ciphertexts[x] : x \in EncryptInputs }
        \X (Passwords \cup (Entries \ { Interrupt }))

Decryptions ==
    Tabulated([y \in DecryptInputs |-> decrypt_data(y[1], y[2], TRUE)])

security_decrypt_data(encrypted_data, password, crypto_available) ==
    IF crypto_available /\ << encrypted_data, password >> \in DecryptInputs
    THEN Decryptions[<< encrypted_data, password >>]
    ELSE decrypt_data(encrypted_data, password, crypto_available)

\* ------------------------------------------------------------------------
\* The config dictionary and the config file
\* ------------------------------------------------------------------------

\* A config is a function from key names to string values.
EmptyConfig == [k \in {} |-> <<>>]

\* dict.get(k)
Get(cfg, k) == IF k \in DOMAIN cfg THEN cfg[k] ELSE None

\* cfg[k] = v
Put(cfg, k, v) ==
    [x \in (DOMAIN cfg) \cup {k} |-> IF x = k THEN v ELSE cfg[x]]

\* del cfg[k]
Del(cfg, k) == [x \in (DOMAIN cfg) \ {k} |-> cfg[x]]

\* CONFIG_FILE on disk: absent, or holding the JSON object last dumped.
NoFile == [kind |-> "absent", obj |-> EmptyConfig]

JsonFile(cfg) == [kind |-> "json", obj |-> cfg]

\* EarthImageDownloader.load_config
load_config(f) ==
    IF f.kind = "json" THEN f.obj ELSE EmptyConfig

\* A save that also dumps the cached passphrase.
save_config_with_password(cfg, f, mp, writable) ==
    IF writable
    THEN [ok |-> TRUE,
          file |-> JsonFile(IF Truthy(mp) THEN Put(cfg, "master_password", mp)
                            ELSE cfg)]
    ELSE [ok |-> FALSE, file |-> f]

\* EarthImageDownloader.save_config: writable = FALSE is the PermissionError
\* or OSError of mkdir/open, which leaves the file as it was.
save_config(cfg, f, mp, writable) ==
    IF writable THEN [ok |-> TRUE, file |-> JsonFile(cfg)]
    ELSE [ok |-> FALSE, file |-> f]

\* Permission bits: a mode is the set of the bits that are set.
Mode600 == { "ur", "uw" }

Mode700 == { "ur", "uw", "ux" }

\* The mode open() asks for when it creates a file.
Mode666 == { "ur", "uw", "gr", "gw", "or", "ow" }

\* The mode mkdir() asks for when it creates a directory.
Mode777 == { "ur", "uw", "ux", "gr", "gw", "gx", "or", "ow", "ox" }

\* The process umask: 022 and 077, as the bits a creation clears.
Umasks == { { "gw", "ow" }, { "gr", "gw", "gx", "or", "ow", "ox" } }

\* The file system steps of save_config on a POSIX host (os.name != 'nt').
\* fs holds the modes of CONFIG_DIR and CONFIG_FILE before the call, held is
\* whether the file held a credential record before, holds whether
\* self.config holds one.  The result lists the modes after mkdir, after the
\* chmod of the directory, after open-and-dump, and after the chmod of the
\* file; a chmod that raises OSError is passed over.  Nothing is listed when
\* mkdir raises.
save_config_steps(fs, fexists, held, holds, umask, writable, dir_chmod, file_chmod) ==
    IF ~writable THEN <<>>
    ELSE
        With([dmode |-> IF fs.dexists THEN fs.dmode ELSE Mode777 \ umask,
              fexists |-> fexists, fmode |-> fs.fmode, record |-> fexists /\ held],
             LAMBDA s1 :
        With([s1 EXCEPT !.dmode = IF dir_chmod THEN Mode700 ELSE s1.dmode],
             LAMBDA s2 :
        With([s2 EXCEPT !.fexists = TRUE,
                        !.fmode = IF fexists THEN fs.fmode ELSE Mode666 \ umask,
                        !.record = holds],
             LAMBDA s3 :
        With([s3 EXCEPT !.fmode = IF file_chmod THEN Mode600 ELSE s3.fmode],
             LAMBDA s4 :
            << s1, s2, s3, s4 >>))))

\* ------------------------------------------------------------------------
\* EarthImageDownloader
\* ------------------------------------------------------------------------

\* len(password) < 8
MinPasswordLen == 8

\* EarthImageDownloader._get_master_password: e1, e2 are the lines typed at
\* the prompts; entered lists the prompts that were answered.
get_master_password(mp, confirm, e1, e2) ==
    IF Truthy(mp) THEN [ret |-> mp, mp |-> mp, entered |-> <<>>]
    ELSE IF confirm THEN
        IF e1 = Interrupt THEN [ret |-> None, mp |-> mp, entered |-> <<e1>>]
        ELSE IF e2 = Interrupt \/ e1 # e2 \/ Len(e1) < MinPasswordLen
        THEN [ret |-> None, mp |-> mp, entered |-> <<e1, e2>>]
        ELSE [ret |-> e1, mp |-> e1, entered |-> <<e1, e2>>]
    ELSE
        IF e1 = Interrupt THEN [ret |-> None, mp |-> mp, entered |-> <<e1>>]
        ELSE [ret |-> e1, mp |-> e1, entered |-> <<e1>>]

\* A record whose key_hash is the digest of the ciphertext.
credential_record_hash_of_ciphertext(cfg, encrypted_key, api_key) ==
    With(Put(Put(Put(cfg, "encrypted_api_key", encrypted_key),
                 "key_hash", hash_string(encrypted_key)),
             "encryption_version", <<49, 46, 48>>), LAMBDA c :
        IF "api_key" \in DOMAIN c THEN Del(c, "api_key") ELSE c)

\* A record that is added next to a plain-text api_key.
credential_record_keeping_plaintext(cfg, encrypted_key, api_key) ==
    Put(Put(Put(cfg, "encrypted_api_key", encrypted_key),
            "key_hash", hash_string(strip(api_key))),
        "encryption_version", <<49, 46, 48>>)

\* The dictionary updates of set_api_key: the credential record
\* (encryption_version is "1.0") replaces any plain-text api_key.
credential_record(cfg, encrypted_key, api_key) ==
    With(Put(Put(Put(cfg, "encrypted_api_key", encrypted_key),
                 "key_hash", hash_string(strip(api_key))),
             "encryption_version", <<49, 46, 48>>), LAMBDA c :
        IF "api_key" \in DOMAIN c THEN Del(c, "api_key") ELSE c)

\* EarthImageDownloader.set_api_key
set_api_key(cfg, f, mp, crypto_available, api_key, e1, e2, iv, writable) ==
    LET unchanged == [ret |-> FALSE, config |-> cfg, file |-> f, mp |-> mp,
                      entered |-> <<>>, enc_pw |-> None]
    IN
    IF ~validate_api_key_format(api_key) THEN unchanged
    ELSE IF ~crypto_available THEN
        With(Put(cfg, "api_key", strip(api_key)), LAMBDA c1 :
        With(save_config(c1, f, mp, writable), LAMBDA sv :
            [unchanged EXCEPT !.ret = sv.ok, !.config = c1, !.file = sv.file]))
    ELSE
        With(get_master_password(mp, TRUE, e1, e2), LAMBDA g :
        IF ~Truthy(g.ret)
        THEN [unchanged EXCEPT !.mp = g.mp, !.entered = g.entered]
        ELSE
            With(security_encrypt_data(strip(api_key), g.ret, crypto_available, iv),
                 LAMBDA encrypted_key :
            IF ~Truthy(encrypted_key)
            THEN [unchanged EXCEPT !.mp = g.mp, !.entered = g.entered,
                                   !.enc_pw = g.ret]
            ELSE
                With(credential_record(cfg, encrypted_key, api_key), LAMBDA c4 :
                With(save_config(c4, f, g.mp, writable), LAMBDA sv :
                    [ret |-> sv.ok, config |-> c4, file |-> sv.file, mp |-> g.mp,
                     entered |-> g.entered, enc_pw |-> g.ret]))))

\* A get_api_key that forgets the record when it cannot return the key.
get_result_forgetting(cfg, f, r, m, en) ==
    [ret |-> r, config |-> IF r = <<>> THEN EmptyConfig ELSE cfg, file |-> f,
     mp |-> m, entered |-> en]

\* What a return of get_api_key leaves behind: the return value and the
\* cached passphrase; self.config and the file are not assigned.
get_result(cfg, f, r, m, en) ==
    [ret |-> r, config |-> cfg, file |-> f, mp |-> m, entered |-> en]

\* A get_api_key that returns the decrypted key without comparing digests.
get_api_key_unchecked(cfg, f, mp, crypto_available, e1) ==
    LET result(r, m, en) == get_result(cfg, f, r, m, en) IN
    IF "api_key" \in DOMAIN cfg /\ "encrypted_api_key" \notin DOMAIN cfg
    THEN result(cfg["api_key"], mp, <<>>)
    ELSE
        LET encrypted_key == Get(cfg, "encrypted_api_key") IN
        IF ~Truthy(encrypted_key) THEN result(<<>>, mp, <<>>)
        ELSE IF ~crypto_available THEN result(<<>>, mp, <<>>)
        ELSE
            With(get_master_password(mp, FALSE, e1, e1), LAMBDA g :
            IF ~Truthy(g.ret) THEN result(<<>>, g.mp, g.entered)
            ELSE
                With(security_decrypt_data(encrypted_key, g.ret, crypto_available),
                     LAMBDA decrypted_key :
                IF ~Truthy(decrypted_key) THEN result(<<>>, g.mp, g.entered)
                ELSE result(decrypted_key, g.mp, g.entered)))

\* EarthImageDownloader.get_api_key
get_api_key(cfg, f, mp, crypto_available, e1) ==
    LET result(r, m, en) == get_result(cfg, f, r, m, en) IN
    IF "api_key" \in DOMAIN cfg /\ "encrypted_api_key" \notin DOMAIN cfg
    THEN result(cfg["api_key"], mp, <<>>)
    ELSE
        LET encrypted_key == Get(cfg, "encrypted_api_key") IN
        IF ~Truthy(encrypted_key) THEN result(<<>>, mp, <<>>)
        ELSE IF ~crypto_available THEN result(<<>>, mp, <<>>)
        ELSE
            With(get_master_password(mp, FALSE, e1, e1), LAMBDA g :
            IF ~Truthy(g.ret) THEN result(<<>>, g.mp, g.entered)
            ELSE
                With(security_decrypt_data(encrypted_key, g.ret, crypto_available),
                     LAMBDA decrypted_key :
                IF ~Truthy(decrypted_key) THEN result(<<>>, g.mp, g.entered)
                ELSE IF hash_string(decrypted_key) # Get(cfg, "key_hash")
                THEN result(<<>>, g.mp, g.entered)
                ELSE result(decrypted_key, g.mp, g.entered)))

\* str.lower() on one character
LowerChar(c) == IF c >= 65 /\ c <= 90 THEN c + 32 ELSE c

\* input().strip().lower()
Answer(line) ==
    With(strip(line), LAMBDA t : [i \in 1..Len(t) |-> LowerChar(t[i])] \o << >>)

\* CONFIG_FILE after open(CONFIG_FILE, 'wb') truncated it.
TruncatedFile == [kind |-> "truncated", obj |-> EmptyConfig]

\* CONFIG_FILE holding secrets.token_bytes(...), flushed and synced.
RandomFile == [kind |-> "random", obj |-> EmptyConfig]

\* What the overwrite of wipe_config can meet: "none" is no exception,
\* "open" is an exception of stat() or open() (the file is as it was),
\* "write" is an exception of write(), flush() or fsync() (the file was
\* truncated by the open).
WipeFaults == { "none", "open", "write" }

\* A wipe_config that takes the default answer (an empty line) for a yes.
wipe_config_default_yes(cfg, f, mp, line, fault) ==
    IF Answer(line) # <<121>> /\ Answer(line) # <<>>
    THEN [ret |-> FALSE, config |-> cfg, file |-> f, mp |-> mp,
          ops |-> <<>>, unlinked |-> NoFile]
    ELSE IF f.kind = "absent"
    THEN [ret |-> TRUE, config |-> EmptyConfig, file |-> f, mp |-> None,
          ops |-> <<>>, unlinked |-> NoFile]
    ELSE [ret |-> TRUE, config |-> EmptyConfig, file |-> NoFile, mp |-> None,
          ops |-> << "open", "write", "flush", "fsync", "unlink" >>,
          unlinked |-> RandomFile]

\* EarthImageDownloader.wipe_config.  ops lists the file operations that
\* were carried out, in their order; unlinked is the content CONFIG_FILE had
\* when unlink() removed it (NoFile when nothing was removed).  A config
\* file the program wrote is not empty (file_size > 0).
wipe_config(cfg, f, mp, line, fault) ==
    IF Answer(line) # <<121>>
    THEN [ret |-> FALSE, config |-> cfg, file |-> f, mp |-> mp,
          ops |-> <<>>, unlinked |-> NoFile]
    ELSE IF f.kind = "absent"
    THEN [ret |-> TRUE, config |-> EmptyConfig, file |-> f, mp |-> None,
          ops |-> <<>>, unlinked |-> NoFile]
    ELSE IF fault = "none"
    THEN [ret |-> TRUE, config |-> EmptyConfig, file |-> NoFile, mp |-> None,
          ops |-> << "open", "write", "flush", "fsync", "unlink" >>,
          unlinked |-> RandomFile]
    ELSE IF fault = "open"
    THEN [ret |-> TRUE, config |-> EmptyConfig, file |-> NoFile, mp |-> None,
          ops |-> << "unlink" >>, unlinked |-> f]
    ELSE [ret |-> TRUE, config |-> EmptyConfig, file |-> NoFile, mp |-> None,
          ops |-> << "open", "unlink" >>, unlinked |-> TruncatedFile]

\* ------------------------------------------------------------------------
\* The files the other commands remove.  A directory is the sequence of its
\* path components, a file is a directory, a stem and an extension, and a
\* glob is a file whose stem is "*".
\* ------------------------------------------------------------------------

CONFIG_DIR == << "~", ".eimg" >>

LOGS_DIR == << "src", "logs" >>

CACHE_DIR == << "src", "cache" >>

CONFIG_FILE == [dir |-> CONFIG_DIR, stem |-> "config", ext |-> ".json"]

Glob(dir, ext) == [dir |-> dir, stem |-> "*", ext |-> ext]

Matches(path, pattern) ==
    /\ path.dir = pattern.dir
    /\ path.ext = pattern.ext
    /\ pattern.stem \in { "*", path.stem }

\* A clear_cache whose "images" also unlinks the metadata files.
clear_cache_images_with_metadata(cache_type) ==
    (IF cache_type \in { "all", "images" }
     THEN { Glob(CACHE_DIR \o << "images" >>, ".png") } ELSE {})
    \cup
    (IF cache_type \in { "all", "images", "metadata" }
     THEN { Glob(CACHE_DIR \o << "metadata" >>, ".json") } ELSE {})
    \cup
    (IF cache_type \in { "all", "thumbnails" }
     THEN { Glob(CACHE_DIR \o << "thumbnails" >>, ".jpg") } ELSE {})

\* CacheManager.clear_cache: the globs whose files it unlinks.
clear_cache(cache_type) ==
    (IF cache_type \in { "all", "images" }
     THEN { Glob(CACHE_DIR \o << "images" >>, ".png") } ELSE {})
    \cup
    (IF cache_type \in { "all", "metadata" }
     THEN { Glob(CACHE_DIR \o << "metadata" >>, ".json") } ELSE {})
    \cup
    (IF cache_type \in { "all", "thumbnails" }
     THEN { Glob(CACHE_DIR \o << "thumbnails" >>, ".jpg") } ELSE {})

\* EarthImageDownloader.clear_logs_command: its return value and the globs
\* whose files it unlinks.
clear_logs_command(line) ==
    IF Answer(line) # <<121>> THEN [ret |-> FALSE, unlinks |-> {}]
    ELSE [ret |-> None, unlinks |-> { Glob(LOGS_DIR, ".log") }]

\* EarthImageDownloader.show_config: the file it touches and unlinks.
show_config_unlinks == { [dir |-> CONFIG_DIR, stem |-> "test_write", ext |-> ""] }

\* CONFIG_FILE after the files matching the patterns were unlinked.
Unlinked(f, patterns) ==
    IF \E pattern \in patterns : Matches(CONFIG_FILE, pattern) THEN NoFile
    ELSE f

\* The second command-line argument of cache-clear.
CacheTypes == { "all", "images", "metadata", "thumbnails", "none" }

\* ------------------------------------------------------------------------
\* JSON text: json.dump(obj, f, indent=2, ensure_ascii=False) and json.loads
\* for the objects the program writes, whose keys and values are strings.
\* An object is a function from its keys to its values, both as characters.
\* ------------------------------------------------------------------------

\* '"'
QuoteChar == 34

\* '\'
BackslashChar == 92

HexDigits == << 48, 49, 50, 51, 52, 53, 54, 55, 56, 57, 97, 98, 99, 100, 101, 102 >>

\* The letter of the two-character escape of a character, or 0:
\* \" \\ \n \r \t \b \f.
ShortEscape(c) ==
    CASE c = QuoteChar -> QuoteChar
      [] c = BackslashChar -> BackslashChar
      [] c = 10 -> 110
      [] c = 13 -> 114
      [] c = 9 -> 116
      [] c = 8 -> 98
      [] c = 12 -> 102
      [] OTHER -> 0

\* json.encoder.py_encode_basestring on one character: the two-character
\* escapes, \u00XX for the other control characters, and the character
\* itself otherwise (ensure_ascii=False).
EscapeChar(c) ==
    IF ShortEscape(c) # 0 THEN << BackslashChar, ShortEscape(c) >>
    ELSE IF c < 32
    THEN << BackslashChar, 117, 48, 48, HexDigits[(c \div 16) + 1],
            HexDigits[(c % 16) + 1] >>
    ELSE << c >>

\* Head(ss) \o ... \o Last(ss)
RECURSIVE Concat(_)
Concat(ss) == IF ss = <<>> THEN <<>> ELSE Head(ss) \o Concat(Tail(ss))

\* A string between quotes, none of its characters escaped.
json_string_unescaped(str) == << QuoteChar >> \o str \o << QuoteChar >>

\* A string as JSON text.
json_string(str) ==
    << QuoteChar >> \o Concat([i \in 1..Len(str) |-> EscapeChar(str[i])] \o << >>)
        \o << QuoteChar >>

\* json.dump with indent=2 of an object whose keys were inserted in the
\* order given: '{}', or one '  "key": "value"' line per key.
json_dumps(obj, order) ==
    IF order = <<>> THEN << 123, 125 >>
    ELSE << 123, 10 >>
         \o Concat([i \in 1..Len(order) |->
                        << 32, 32 >> \o json_string(order[i]) \o << 58, 32 >>
                        \o json_string(obj[order[i]])
                        \o (IF i < Len(order) THEN << 44, 10 >> ELSE << 10 >>)]
                   \o << >>)
         \o << 125 >>

\* The white space of JSON: space, tab, line feed, carriage return.
IsJsonSpace(c) == c \in { 32, 9, 10, 13 }

\* The first position of text at or after i that is not white space.
RECURSIVE SkipSpace(_, _)
SkipSpace(text, i) ==
    IF i <= Len(text) /\ IsJsonSpace(text[i]) THEN SkipSpace(text, i + 1) ELSE i

\* The value of a hexadecimal digit, or 16.
HexValue(c) ==
    IF c >= 48 /\ c <= 57 THEN c - 48
    ELSE IF c >= 97 /\ c <= 102 THEN c - 87
    ELSE IF c >= 65 /\ c <= 70 THEN c - 55
    ELSE 16

\* The character a two-character escape stands for, or -1: \" \\ \/ \b \f
\* \n \r \t.
Unescaped(c) ==
    CASE c = QuoteChar -> QuoteChar
      [] c = BackslashChar -> BackslashChar
      [] c = 47 -> 47
      [] c = 98 -> 8
      [] c = 102 -> 12
      [] c = 110 -> 10
      [] c = 114 -> 13
      [] c = 116 -> 9
      [] OTHER -> -1

\* json.decoder.scanstring from position i, just after the opening quote,
\* with the characters read so far: the string and the position after its
\* closing quote.  A control character in the string is an error (strict).
RECURSIVE ScanString(_, _, _)
ScanString(text, i, sofar) ==
    IF i > Len(text) THEN [ok |-> FALSE, val |-> <<>>, next |-> i]
    ELSE IF text[i] = QuoteChar THEN [ok |-> TRUE, val |-> sofar, next |-> i + 1]
    ELSE IF text[i] < 32 THEN [ok |-> FALSE, val |-> <<>>, next |-> i]
    ELSE IF text[i] # BackslashChar
    THEN ScanString(text, i + 1, Append(sofar, text[i]))
    ELSE IF i + 1 > Len(text) THEN [ok |-> FALSE, val |-> <<>>, next |-> i]
    ELSE IF text[i + 1] = 117
    THEN IF i + 5 > Len(text)
              \/ \E k \in 2..5 : HexValue(text[i + k]) = 16
         THEN [ok |-> FALSE, val |-> <<>>, next |-> i]
         ELSE ScanString(text, i + 6,
                         Append(sofar, HexValue(text[i + 2]) * 4096
                                       + HexValue(text[i + 3]) * 256
                                       + HexValue(text[i + 4]) * 16
                                       + HexValue(text[i + 5])))
    ELSE IF Unescaped(text[i + 1]) = -1
    THEN [ok |-> FALSE, val |-> <<>>, next |-> i]
    ELSE ScanString(text, i + 2, Append(sofar, Unescaped(text[i + 1])))

\* dict[key] = value on a dict kept as its object and the order of its keys.
PutInOrder(d, key, value) ==
    [obj |-> Put(d.obj, key, value),
     order |-> IF key \in DOMAIN d.obj THEN d.order ELSE Append(d.order, key)]

EmptyDict == [obj |-> EmptyConfig, order |-> <<>>]

\* json.decoder.JSONObject from position i, where a key is expected, with the
\* pairs read so far.  A value that is not a string is outside the objects of
\* the model and is reported as an error.
RECURSIVE ScanPairs(_, _, _)
ScanPairs(text, i, sofar) ==
    IF i > Len(text) \/ text[i] # QuoteChar THEN [ok |-> FALSE, dict |-> sofar, next |-> i]
    ELSE With(ScanString(text, i + 1, <<>>), LAMBDA key :
         IF ~key.ok THEN [ok |-> FALSE, dict |-> sofar, next |-> i]
         ELSE With(SkipSpace(text, key.next), LAMBDA colon :
              IF colon > Len(text) \/ text[colon] # 58
              THEN [ok |-> FALSE, dict |-> sofar, next |-> i]
              ELSE With(SkipSpace(text, colon + 1), LAMBDA start :
                   IF start > Len(text) \/ text[start] # QuoteChar
                   THEN [ok |-> FALSE, dict |-> sofar, next |-> i]
                   ELSE With(ScanString(text, start + 1, <<>>), LAMBDA value :
                        IF ~value.ok THEN [ok |-> FALSE, dict |-> sofar, next |-> i]
                        ELSE With(SkipSpace(text, value.next), LAMBDA after :
                             IF after > Len(text)
                             THEN [ok |-> FALSE, dict |-> sofar, next |-> i]
                             ELSE IF text[after] = 125
                             THEN [ok |-> TRUE,
                                   dict |-> PutInOrder(sofar, key.val, value.val),
                                   next |-> after + 1]
                             ELSE IF text[after] = 44
                             THEN ScanPairs(text, SkipSpace(text, after + 1),
                                            PutInOrder(sofar, key.val, value.val))
                             ELSE [ok |-> FALSE, dict |-> sofar, next |-> i])))))

\* json.loads: ok is FALSE where it raises JSONDecodeError; otherwise the
\* object and its keys in the order of the text.
json_loads(text) ==
    With(SkipSpace(text, 1), LAMBDA open :
    IF open > Len(text) \/ text[open] # 123
    THEN [ok |-> FALSE, obj |-> EmptyConfig, order |-> <<>>]
    ELSE With(SkipSpace(text, open + 1), LAMBDA first :
         IF first <= Len(text) /\ text[first] = 125
         THEN [ok |-> SkipSpace(text, first + 1) > Len(text),
               obj |-> EmptyConfig, order |-> <<>>]
         ELSE With(ScanPairs(text, first, EmptyDict), LAMBDA pairs :
              IF pairs.ok /\ SkipSpace(text, pairs.next) > Len(text)
              THEN [ok |-> TRUE, obj |-> pairs.dict.obj, order |-> pairs.dict.order]
              ELSE [ok |-> FALSE, obj |-> EmptyConfig, order |-> <<>>])))

\* CONFIG_FILE as text: absent, or holding the characters last written.
NoTextFile == [kind |-> "absent", content |-> <<>>]

TextFile(content) == [kind |-> "text", content |-> content]

\* EarthImageDownloader.load_config on the text of the file: {} when the
\* file is missing, holds white space only, or json.loads raises.
load_config_from_text(f) ==
    IF f.kind = "absent" THEN EmptyDict
    ELSE With(strip(f.content), LAMBDA content :
         IF content = <<>> THEN EmptyDict
         ELSE With(json_loads(content), LAMBDA loaded :
              IF loaded.ok THEN [obj |-> loaded.obj, order |-> loaded.order]
              ELSE EmptyDict))

\* A save_config that writes the values without escaping them.
save_config_as_text_unescaped(d, f, writable) ==
    IF ~writable THEN [ok |-> FALSE, file |-> f]
    ELSE [ok |-> TRUE,
          file |-> TextFile(<< 123, 10 >>
                            \o Concat([i \in 1..Len(d.order) |->
                                   << 32, 32 >> \o json_string(d.order[i]) \o << 58, 32 >>
                                   \o json_string_unescaped(d.obj[d.order[i]])
                                   \o (IF i < Len(d.order) THEN << 44, 10 >> ELSE << 10 >>)]
                                      \o << >>)
                            \o << 125 >>)]

\* EarthImageDownloader.save_config on the text of the file: writable is
\* FALSE when creating the directory or opening the file raises.
save_config_as_text(d, f, writable) ==
    IF ~writable THEN [ok |-> FALSE, file |-> f]
    ELSE [ok |-> TRUE, file |-> TextFile(json_dumps(d.obj, d.order))]

\* ------------------------------------------------------------------------
\* The cache directory and the download
\* ------------------------------------------------------------------------

\* '.png', '.json', '.jpg' and '.log' as characters.
ExtChars ==
    [ext \in { ".png", ".json", ".jpg", ".log" } |->
        CASE ext = ".png" -> << 46, 112, 110, 103 >>
          [] ext = ".json" -> << 46, 106, 115, 111, 110 >>
          [] ext = ".jpg" -> << 46, 106, 112, 103 >>
          [] ext = ".log" -> << 46, 108, 111, 103 >>]

\* str.endswith
EndsWith(s, suffix) ==
    Len(s) >= Len(suffix)
        /\ SubSeq(s, Len(s) - Len(suffix) + 1, Len(s)) = suffix

\* str.lower()
Lower(s) == [i \in 1..Len(s) |-> LowerChar(s[i])] \o << >>

\* A directory: a function from the names of its files to their contents.
EmptyDir == [name \in {} |-> <<>>]

\* The three directories setup_cache creates under CACHE_DIR.
CacheDirs == { "images", "metadata", "thumbnails" }

EmptyCache == [d \in CacheDirs |-> EmptyDir]

\* Path.glob of a pattern of clear_cache or get_cache_stats in a directory of
\* the cache: the names that end in the extension, letter case included.
GlobNames(cache, d, pattern) ==
    IF pattern.dir = CACHE_DIR \o << d >>
    THEN { name \in DOMAIN cache[d] : EndsWith(name, ExtChars[pattern.ext]) }
    ELSE {}

\* The files of directory d that clear_cache(cache_type) iterates over.
ClearTargets(cache, d, cache_type) ==
    UNION { GlobNames(cache, d, pattern) : pattern \in clear_cache(cache_type) }

\* A clear_cache that counts a file before it tries to unlink it.
clear_cache_run_counting_first(cache, cache_type, stuck) ==
    [cache |-> [d \in CacheDirs |->
                    [name \in (DOMAIN cache[d])
                                \ (ClearTargets(cache, d, cache_type) \ stuck[d])
                        |-> cache[d][name]]],
     ret |-> Cardinality(ClearTargets(cache, "images", cache_type))
             + Cardinality(ClearTargets(cache, "metadata", cache_type))
             + Cardinality(ClearTargets(cache, "thumbnails", cache_type))]

\* CacheManager.clear_cache on the cache: stuck[d] are the files of d whose
\* unlink() raises OSError, which are passed over and not counted.
clear_cache_run(cache, cache_type, stuck) ==
    [cache |-> [d \in CacheDirs |->
                    [name \in (DOMAIN cache[d])
                                \ (ClearTargets(cache, d, cache_type) \ stuck[d])
                        |-> cache[d][name]]],
     ret |-> Cardinality(ClearTargets(cache, "images", cache_type) \ stuck["images"])
             + Cardinality(ClearTargets(cache, "metadata", cache_type)
                           \ stuck["metadata"])
             + Cardinality(ClearTargets(cache, "thumbnails", cache_type)
                           \ stuck["thumbnails"])]

\* CacheManager.get_cache_stats: the three counts.
get_cache_stats(cache) ==
    [images |-> Cardinality(GlobNames(cache, "images",
                                      Glob(CACHE_DIR \o << "images" >>, ".png"))),
     metadata_files |-> Cardinality(GlobNames(cache, "metadata",
                                      Glob(CACHE_DIR \o << "metadata" >>, ".json"))),
     thumbnails |-> Cardinality(GlobNames(cache, "thumbnails",
                                      Glob(CACHE_DIR \o << "thumbnails" >>, ".jpg")))]

\* '/'
PathSeparator == 47

\* '.' and '..'
DotNames == { << 46 >>, << 46, 46 >> }

\* The name is one path component that can name a file: it holds no '/' and
\* is neither '.' nor '..'.
PlainName(name) ==
    /\ name \notin DotNames
    /\ \A i \in 1..Len(name) : name[i] # PathSeparator

\* open(CACHE_DIR / d / name, 'w') succeeds: the name is a plain name.  The
\* directories of the model are writable and have no subdirectories, so that
\* a name with a separator names a file in a directory that does not exist
\* (the names of the model do not lead out of the directory through '..').
CanOpen(name) == name # <<>> /\ PlainName(name)

\* The metadata argument: None, or a dict of strings with its keys in the
\* order of insertion.
NoMetadata == [kind |-> "none", obj |-> EmptyConfig, order |-> <<>>]

Dict(obj, order) == [kind |-> "dict", obj |-> obj, order |-> order]

\* 'if metadata:'
TruthyDict(metadata) == metadata.kind = "dict" /\ metadata.order # <<>>

\* CACHE_DIR / "images" / filename
CachePath(filename) == CACHE_DIR \o << "images", filename >>

\* CacheManager.save_image_to_cache: the return value is the path of the
\* cached image or None.  The metadata file holds the text json.dump writes.
save_image_to_cache(cache, image_data, filename, metadata) ==
    IF ~Truthy(image_data) \/ ~Truthy(filename) THEN [ret |-> None, cache |-> cache]
    ELSE IF ~CanOpen(filename) THEN [ret |-> None, cache |-> cache]
    ELSE With([cache EXCEPT !["images"] = Put(@, filename, image_data)],
              LAMBDA c1 :
         [ret |-> CachePath(filename),
          cache |-> IF TruthyDict(metadata)
                    THEN [c1 EXCEPT !["metadata"] =
                             Put(@, filename \o ExtChars[".json"],
                                 json_dumps(metadata.obj, metadata.order))]
                    ELSE c1])

\* The characters the file name filter of _download_image keeps.
IsFilenameChar(c) == IsAlnumChar(c) \/ c \in { 46, 95, 45 }

\* 'earth_'
EarthPrefix == << 101, 97, 114, 116, 104, 95 >>

\* A file name filter that also keeps the path separator.
output_filename_keeping_separator(filename, timestamp) ==
    With(IF filename = None
         THEN EarthPrefix \o timestamp \o ExtChars[".png"]
         ELSE filename, LAMBDA f1 :
    With(IF EndsWith(Lower(f1), ExtChars[".png"]) THEN f1
         ELSE f1 \o ExtChars[".png"], LAMBDA f2 :
    SelectSeq(f2, LAMBDA c : IsFilenameChar(c) \/ c = PathSeparator)))

\* _download_image: the default name, the '.png' ending and the filter.
output_filename(filename, timestamp) ==
    With(IF filename = None
         THEN EarthPrefix \o timestamp \o ExtChars[".png"]
         ELSE filename, LAMBDA f1 :
    With(IF EndsWith(Lower(f1), ExtChars[".png"]) THEN f1
         ELSE f1 \o ExtChars[".png"], LAMBDA f2 :
    SelectSeq(f2, IsFilenameChar)))

\* b''.join of the chunks iter_content yields.
RECURSIVE JoinChunks(_)
JoinChunks(chunks) ==
    IF chunks = <<>> THEN <<>>
    ELSE Head(chunks) \o JoinChunks(Tail(chunks))

\* _download_image.  fs holds the output directory and the cache; image is
\* what the image request gives: status "error" (raise_for_status or the
\* connection raises) or "ok" with the chunks of the body; writable is
\* whether open(full_path, 'wb') succeeds.  The metadata of the cached copy
\* is the image name.
\* 'image_name'
ImageNameKey == << 105, 109, 97, 103, 101, 95, 110, 97, 109, 101 >>

\* The metadata dict of _download_image, of which the model keeps the first
\* entry; date, url, download_time and file_size follow it in the code.
Metadata(image_name) ==
    Dict(Put(EmptyConfig, ImageNameKey, image_name), << ImageNameKey >>)

download_image(fs, image_name, filename, timestamp, image, writable, save_to_cache) ==
    IF image.status = "error" THEN [ret |-> FALSE, fs |-> fs, name |-> None]
    ELSE With(output_filename(filename, timestamp), LAMBDA name :
         IF ~writable THEN [ret |-> FALSE, fs |-> fs, name |-> name]
         ELSE With(JoinChunks(image.chunks), LAMBDA image_data :
              [ret |-> TRUE,
               name |-> name,
               fs |-> [out |-> Put(fs.out, name, image_data),
                       cache |-> IF save_to_cache
                                 THEN save_image_to_cache(fs.cache, image_data,
                                                          name, Metadata(image_name)).cache
                                 ELSE fs.cache]]))

\* The value of save_to_cache in the calls of _download_image: neither
\* download_latest nor download_by_date passes it, and neither takes the
\* --no-cache flag as a parameter, so it is the default of the signature.
SaveToCache(no_cache) == TRUE

\* download_latest and download_by_date after get_api_key returned api_key:
\* listing is what the request to api.nasa.gov gives: status "error",
\* "empty" (no image) or "ok" with the name of the first image.  requests
\* lists the hosts that were asked.
download(fs, api_key, no_cache, filename, timestamp, listing, image, writable) ==
    IF ~Truthy(api_key) THEN [ret |-> FALSE, fs |-> fs, requests |-> <<>>, name |-> None]
    ELSE IF listing.status \in { "error", "empty" }
    THEN [ret |-> FALSE, fs |-> fs, requests |-> << "api.nasa.gov" >>, name |-> None]
    ELSE With(download_image(fs, listing.image, filename, timestamp, image, writable,
                             SaveToCache(no_cache)), LAMBDA d :
         [ret |-> d.ret, fs |-> d.fs, name |-> d.name,
          requests |-> << "api.nasa.gov", "epic.gsfc.nasa.gov" >>])

\* datetime.strptime(date, '%Y-%m-%d') does not raise, for the dates of the
\* model, which are ten characters long: four digits, '-', two digits, '-',
\* two digits, with a month of 01..12 and a day of 01..28.
strptime_accepts(date) ==
    /\ Len(date) = 10
    /\ date[5] = 45 /\ date[8] = 45
    /\ \A i \in { 1, 2, 3, 4, 6, 7, 9, 10 } : date[i] >= 48 /\ date[i] <= 57
    /\ ((date[6] - 48) * 10 + (date[7] - 48)) \in 1..12
    /\ ((date[9] - 48) * 10 + (date[10] - 48)) \in 1..28

\* The one request of validate_api_key, show_metadata and
\* get_available_dates.
ApiRequest == << "api.nasa.gov" >>

\* A validate_api_key that sends the request whatever get_api_key returned.
validate_api_key_asking_first(api_key, response) ==
    [ret |-> Truthy(api_key) /\ response.status = "ok", requests |-> ApiRequest]

\* validate_api_key after get_api_key returned api_key: True exactly for
\* status code 200.
validate_api_key(api_key, response) ==
    IF ~Truthy(api_key) THEN [ret |-> FALSE, requests |-> <<>>]
    ELSE [ret |-> response.status = "ok", requests |-> ApiRequest]

\* get_available_dates after get_api_key returned api_key: the list of the
\* response, [] on an error.
get_available_dates(api_key, response) ==
    IF ~Truthy(api_key) THEN [ret |-> <<>>, requests |-> <<>>]
    ELSE [ret |-> IF response.status = "ok" THEN response.data ELSE <<>>,
          requests |-> ApiRequest]

\* show_metadata(date) after get_api_key returned api_key; date is None for
\* the latest images.
show_metadata(api_key, date, response) ==
    IF ~Truthy(api_key) THEN [ret |-> FALSE, requests |-> <<>>]
    ELSE IF Truthy(date) /\ ~strptime_accepts(date)
    THEN [ret |-> FALSE, requests |-> <<>>]
    ELSE [ret |-> response.status = "ok" /\ response.data # <<>>,
          requests |-> ApiRequest]

\* download_by_date(date, output_dir, filename) after get_api_key returned
\* api_key: the date is checked before the first request.
download_by_date(fs, api_key, date, no_cache, filename, timestamp, listing, image, writable) ==
    IF ~Truthy(api_key) THEN [ret |-> FALSE, fs |-> fs, requests |-> <<>>, name |-> None]
    ELSE IF ~strptime_accepts(date)
    THEN [ret |-> FALSE, fs |-> fs, requests |-> <<>>, name |-> None]
    ELSE download(fs, api_key, no_cache, filename, timestamp, listing, image, writable)

\* ------------------------------------------------------------------------
\* The command line
\* ------------------------------------------------------------------------

\* 'help'
HelpCommand == << 104, 101, 108, 112 >>

\* 'set'
SetPrefix == << 115, 101, 116 >>

\* 'set API'
SetApiName == << 115, 101, 116, 32, 65, 80, 73 >>

\* '='
EqualsChar == 61

\* The 'elif args.command == ...' branches of main that come before the
\* 'set' branch, each with the method it calls.
CommandsBeforeSet ==
    {
      \* download
      << << 100, 111, 119, 110, 108, 111, 97, 100 >>, "download_latest" >>,
      \* download-date
      << << 100, 111, 119, 110, 108, 111, 97, 100, 45, 100, 97, 116, 101 >>, "download_by_date" >>,
      \* dates
      << << 100, 97, 116, 101, 115 >>, "get_available_dates" >>,
      \* metadata
      << << 109, 101, 116, 97, 100, 97, 116, 97 >>, "show_metadata" >>,
      \* validate
      << << 118, 97, 108, 105, 100, 97, 116, 101 >>, "validate_api_key" >>,
      \* wipe
      << << 119, 105, 112, 101 >>, "wipe_config" >>,
      \* cache-info
      << << 99, 97, 99, 104, 101, 45, 105, 110, 102, 111 >>, "show_cache_info" >>,
      \* cache-clear
      << << 99, 97, 99, 104, 101, 45, 99, 108, 101, 97, 114 >>, "clear_cache_command" >>,
      \* open-cache
      << << 111, 112, 101, 110, 45, 99, 97, 99, 104, 101 >>, "open_directory" >>,
      \* logs-info
      << << 108, 111, 103, 115, 45, 105, 110, 102, 111 >>, "show_logs_info" >>,
      \* logs-clear
      << << 108, 111, 103, 115, 45, 99, 108, 101, 97, 114 >>, "clear_logs_command" >>,
      \* open-logs
      << << 111, 112, 101, 110, 45, 108, 111, 103, 115 >>, "open_directory" >>,
      \* open-config
      << << 111, 112, 101, 110, 45, 99, 111, 110, 102, 105, 103 >>, "open_directory" >>,
      \* test
      << << 116, 101, 115, 116 >>, "run_all_tests" >>
    }

\* The 'elif args.command == ...' branches of main after the 'set' branch.
CommandsAfterSet ==
    {
      \* config
      << << 99, 111, 110, 102, 105, 103 >>, "show_config" >>,
      \* version
      << << 118, 101, 114, 115, 105, 111, 110 >>, "print_version" >>
    }

\* str.startswith
StartsWith(s, prefix) ==
    Len(s) >= Len(prefix) /\ SubSeq(s, 1, Len(prefix)) = prefix

\* The position of the first c in s, as str.split(c, 1) cuts there.
FirstIndex(s, c) ==
    CHOOSE i \in 1..Len(s) : s[i] = c /\ \A j \in 1..(i - 1) : s[j] # c

\* The method a table of branches gives for a command.
Branch(commands, command) ==
    (CHOOSE pair \in commands : pair[1] = command)[2]

\* argparse on the arguments after the program name, none of which is an
\* option: 'command' and 'date_or_type' are optional positionals, and a
\* third positional ends the program with a usage error.
parse_args(argv) ==
    [ok |-> Len(argv) <= 2,
     command |-> IF Len(argv) >= 1 THEN argv[1] ELSE HelpCommand,
     date_or_type |-> IF Len(argv) >= 2 THEN argv[2] ELSE None]

\* main: the method the command line is dispatched to, and the API key
\* that is passed when the method is set_api_key.
main(argv) ==
    LET calls(method) == [call |-> method, api_key |-> None] IN
    IF Len(argv) = 0 THEN calls("show_help")
    ELSE With(parse_args(argv), LAMBDA args :
        IF ~args.ok THEN calls("usage_error")
        ELSE IF args.command = HelpCommand THEN calls("show_help")
        ELSE IF \E pair \in CommandsBeforeSet : pair[1] = args.command
        THEN calls(Branch(CommandsBeforeSet, args.command))
        ELSE IF StartsWith(args.command, SetPrefix)
        THEN IF \E i \in 1..Len(args.command) : args.command[i] = EqualsChar
             THEN With(FirstIndex(args.command, EqualsChar), LAMBDA i :
                  IF strip(SubSeq(args.command, 1, i - 1)) = SetApiName
                  THEN [call |-> "set_api_key",
                        api_key |-> strip(SubSeq(args.command, i + 1,
                                                 Len(args.command)))]
                  ELSE calls("invalid_set"))
             ELSE calls("invalid_set")
        ELSE IF \E pair \in CommandsAfterSet : pair[1] = args.command
        THEN calls(Branch(CommandsAfterSet, args.command))
        ELSE calls("unknown_command"))

\* ------------------------------------------------------------------------
\* State
\* ------------------------------------------------------------------------

VARIABLES
    config,            \* self.config
    file,              \* CONFIG_FILE
    master_password,   \* self._master_password
    CRYPTO_AVAILABLE,  \* module constant of the running process
    op,                \* the last call
    arg,               \* its argument (API key, or line typed)
    ret,               \* its return value
    entered,           \* the passphrase prompts it answered
    enc_pw,            \* the passphrase set_api_key encrypted with, or None
    stored,            \* the credential the last encrypted save wrote
    tampered,          \* how the file was edited since that save
    confirmed,         \* the passphrases accepted by a confirming prompt
    ncalls,            \* calls made on this downloader (2 = two or more)
    io                 \* inputs and outputs of the SecurityManager calls

vars == << config, file, master_password, CRYPTO_AVAILABLE, op, arg, ret,
           entered, enc_pw, stored, tampered, confirmed, ncalls, io >>

NoCred == [P |-> None, K |-> None, C |-> None]

NoIO == [stage |-> "none", P |-> None, K1 |-> None, K2 |-> None,
         iv |-> 0, C |-> None, D |-> None, calls |-> <<>>]

Bump(n) == Min(n + 1, 2)

\* The inputs one call of set_api_key or get_api_key consumes.  An input is
\* drawn only where the call reads it: nothing is typed at a prompt the call
\* does not show, no iv is drawn when nothing is encrypted, and the file
\* system is not asked when nothing is saved.

\* set_api_key reaches its passphrase prompt.
SetPrompts(mp, crypto_available, api_key) ==
    validate_api_key_format(api_key) /\ crypto_available /\ ~Truthy(mp)

\* set_api_key reaches encrypt_data.
SetEncrypts(mp, crypto_available, api_key, e1, e2) ==
    /\ validate_api_key_format(api_key)
    /\ crypto_available
    /\ Truthy(get_master_password(mp, TRUE, e1, e2).ret)

\* set_api_key reaches save_config.
SetSaves(mp, crypto_available, api_key, e1, e2) ==
    /\ validate_api_key_format(api_key)
    /\ ~crypto_available \/ SetEncrypts(mp, crypto_available, api_key, e1, e2)

\* get_api_key reaches its passphrase prompt.
GetPrompts(cfg, mp, crypto_available) ==
    Truthy(Get(cfg, "encrypted_api_key")) /\ crypto_available /\ ~Truthy(mp)

\* The lines typed at a prompt that is shown or not.
Typed(shown) == IF shown THEN Entries ELSE { <<>> }

\* A process starts: EarthImageDownloader.__init__ with no config file yet.
Init ==
    /\ file = NoFile
    /\ config = load_config(NoFile)
    /\ master_password = None
    /\ CRYPTO_AVAILABLE \in BOOLEAN
    /\ op = "init"
    /\ arg = None
    /\ ret = None
    /\ entered = <<>>
    /\ enc_pw = None
    /\ stored = NoCred
    /\ tampered = "no"
    /\ confirmed = {}
    /\ ncalls = 0
    /\ io = NoIO

\* A new process: the import decides CRYPTO_AVAILABLE, __init__ loads the
\* config file and clears the cached passphrase.
NewProcess ==
    /\ CRYPTO_AVAILABLE' \in BOOLEAN
    /\ config' = load_config(file)
    /\ master_password' = None
    /\ op' = "init"
    /\ arg' = None
    /\ ret' = None
    /\ entered' = <<>>
    /\ enc_pw' = None
    /\ ncalls' = 0
    /\ UNCHANGED << file, stored, tampered, confirmed, io >>

SetApiKey ==
    \E api_key \in ApiKeys :
    \E e1 \in Typed(SetPrompts(master_password, CRYPTO_AVAILABLE, api_key)) :
    \E e2 \in Typed(SetPrompts(master_password, CRYPTO_AVAILABLE, api_key)
                    /\ e1 # Interrupt) :
    \E iv \in IF SetEncrypts(master_password, CRYPTO_AVAILABLE, api_key, e1, e2)
               THEN 0..MaxIV ELSE { 0 } :
    \E writable \in IF SetSaves(master_password, CRYPTO_AVAILABLE, api_key, e1, e2)
                     THEN BOOLEAN ELSE { TRUE } :
        \E r \in { set_api_key(config, file, master_password, CRYPTO_AVAILABLE,
                               api_key, e1, e2, iv, writable) } :
            /\ config' = r.config
            /\ file' = r.file
            /\ master_password' = r.mp
            /\ op' = "set_api_key"
            /\ arg' = api_key
            /\ ret' = r.ret
            /\ entered' = r.entered
            /\ enc_pw' = r.enc_pw
            /\ stored' = IF r.ret /\ CRYPTO_AVAILABLE
                         THEN [P |-> strip(api_key), K |-> r.enc_pw,
                               C |-> r.config["encrypted_api_key"]]
                         ELSE stored
            /\ tampered' = IF r.ret /\ CRYPTO_AVAILABLE THEN "no" ELSE tampered
            /\ confirmed' = IF Len(r.entered) = 2 /\ r.mp = r.entered[1]
                               /\ r.entered[1] = r.entered[2]
                            THEN confirmed \cup { r.mp } ELSE confirmed
            /\ ncalls' = Bump(ncalls)
            /\ UNCHANGED << CRYPTO_AVAILABLE, io >>

GetApiKey ==
    \E e1 \in Typed(GetPrompts(config, master_password, CRYPTO_AVAILABLE)) :
        \E r \in { get_api_key(config, file, master_password, CRYPTO_AVAILABLE, e1) } :
            /\ config' = r.config
            /\ file' = r.file
            /\ master_password' = r.mp
            /\ op' = "get_api_key"
            /\ arg' = None
            /\ ret' = r.ret
            /\ entered' = r.entered
            /\ enc_pw' = None
            /\ ncalls' = Bump(ncalls)
            /\ UNCHANGED << CRYPTO_AVAILABLE, stored, tampered, confirmed, io >>

\* The faults the overwrite can meet: it is attempted only when the answer
\* is 'y' and the file exists.
WipeMeets(f, line) ==
    IF Answer(line) = <<121>> /\ f.kind # "absent" THEN WipeFaults
    ELSE { "none" }

WipeConfig ==
    \E line \in Lines :
    \E fault \in WipeMeets(file, line) :
        \E r \in { wipe_config(config, file, master_password, line, fault) } :
            /\ config' = r.config
            /\ file' = r.file
            /\ master_password' = r.mp
            /\ op' = "wipe_config"
            /\ arg' = line
            /\ ret' = r.ret
            /\ entered' = <<>>
            /\ enc_pw' = None
            /\ stored' = IF r.ret THEN NoCred ELSE stored
            /\ tampered' = IF r.ret THEN "no" ELSE tampered
            /\ ncalls' = Bump(ncalls)
            /\ UNCHANGED << CRYPTO_AVAILABLE, confirmed, io >>

\* The next run after the config file was edited on disk: __init__ loads
\* the edited file and holds no passphrase.
Reloaded(f) ==
    /\ file' = f
    /\ config' = load_config(f)
    /\ master_password' = None
    /\ op' = "init"
    /\ arg' = None
    /\ ret' = None
    /\ entered' = <<>>
    /\ enc_pw' = None
    /\ ncalls' = 0
    /\ UNCHANGED << CRYPTO_AVAILABLE, stored, confirmed, io >>

\* Somebody edits key_hash in the config file between two runs: removes it
\* or replaces it by the digest of another string.
TamperHash ==
    /\ file.kind = "json"
    /\ "encrypted_api_key" \in DOMAIN file.obj
    /\ tampered = "no"
    /\ \E h \in { None, hash_string(KeyA), hash_string(KeyB) } :
        /\ h # Get(file.obj, "key_hash")
        /\ Reloaded(JsonFile(IF h = None THEN Del(file.obj, "key_hash")
                             ELSE Put(file.obj, "key_hash", h)))
    /\ tampered' = "hash"

\* The characters an edit can put into the file: the 64 of the URL-safe
\* alphabet, '+', '/' and '=', and NUL and '!' for the characters outside
\* the alphabet, which the decoder skips alike.
TamperChars == { B64Char(v) : v \in 0..63 } \cup { 43, 47, PadChar, 0, 33 }

\* Somebody alters one position of encrypted_api_key in the config file
\* between two runs.
TamperCipher ==
    /\ file.kind = "json"
    /\ "encrypted_api_key" \in DOMAIN file.obj
    /\ tampered = "no"
    /\ \E pos \in 1..Len(file.obj["encrypted_api_key"]), c \in TamperChars :
        /\ c # file.obj["encrypted_api_key"][pos]
        /\ Reloaded(JsonFile([file.obj EXCEPT !["encrypted_api_key"][pos] = c]))
    /\ tampered' = "cipher"

Next ==
    \/ NewProcess
    \/ SetApiKey
    \/ GetApiKey
    \/ WipeConfig
    \/ TamperHash

Spec == Init /\ [][Next]_vars

\* ------------------------------------------------------------------------
\* SecurityManager called directly (as tests/test_security.py does):
\* encrypt_data(P, K1), then decrypt_data of the result under K2.
\* ------------------------------------------------------------------------

InitCrypto ==
    /\ file = NoFile
    /\ config = load_config(NoFile)
    /\ master_password = None
    /\ CRYPTO_AVAILABLE \in BOOLEAN
    /\ op = "init"
    /\ arg = None
    /\ ret = None
    /\ entered = <<>>
    /\ enc_pw = None
    /\ stored = NoCred
    /\ tampered = "no"
    /\ confirmed = {}
    /\ ncalls = 0
    /\ \E P \in Plaintexts \cup { None }, K1 \in Passwords \cup { None },
          K2 \in Passwords \cup { None }, iv \in 0..MaxIV :
        io = [stage |-> "input", P |-> P, K1 |-> K1, K2 |-> K2, iv |-> iv,
              C |-> None, D |-> None, calls |-> <<>>]

EncryptData ==
    /\ io.stage = "input"
    /\ io' = [io EXCEPT !.stage = "encrypted",
                        !.C = security_encrypt_data(io.P, io.K1, CRYPTO_AVAILABLE, io.iv),
                        !.calls = encrypt_data_run(io.P, io.K1, CRYPTO_AVAILABLE,
                                                   io.iv).calls]
    /\ UNCHANGED << config, file, master_password, CRYPTO_AVAILABLE, op, arg,
                    ret, entered, enc_pw, stored, tampered, confirmed, ncalls >>

DecryptData ==
    /\ io.stage = "encrypted"
    /\ io' = [io EXCEPT !.stage = "decrypted",
                        !.D = security_decrypt_data(io.C, io.K2, CRYPTO_AVAILABLE),
                        !.calls = decrypt_data_run(io.C, io.K2,
                                                   CRYPTO_AVAILABLE).calls]
    /\ UNCHANGED << config, file, master_password, CRYPTO_AVAILABLE, op, arg,
                    ret, entered, enc_pw, stored, tampered, confirmed, ncalls >>

\* decrypt_data called with the empty string as its data.
DecryptEmpty ==
    /\ io.stage = "input"
    /\ io' = [io EXCEPT !.stage = "decrypted_empty",
                        !.C = <<>>,
                        !.D = security_decrypt_data(<<>>, io.K2, CRYPTO_AVAILABLE),
                        !.calls = decrypt_data_run(<<>>, io.K2,
                                                   CRYPTO_AVAILABLE).calls]
    /\ UNCHANGED << config, file, master_password, CRYPTO_AVAILABLE, op, arg,
                    ret, entered, enc_pw, stored, tampered, confirmed, ncalls >>

NextCrypto ==
    \/ EncryptData
    \/ DecryptData
    \/ DecryptEmpty

SpecCrypto == InitCrypto /\ [][NextCrypto]_vars

\* ------------------------------------------------------------------------
\* encrypt_data called twice with the same plaintext and passphrase, each
\* call with the iv Fernet draws from os.urandom, then decrypt_data of both.
\* ------------------------------------------------------------------------

\* Largest iv byte the random source supplies to the two calls.
MaxNonce == 1

InitTwice ==
    /\ file = NoFile
    /\ config = load_config(NoFile)
    /\ master_password = None
    /\ CRYPTO_AVAILABLE \in BOOLEAN
    /\ op = "init"
    /\ arg = None
    /\ ret = None
    /\ entered = <<>>
    /\ enc_pw = None
    /\ stored = NoCred
    /\ tampered = "no"
    /\ confirmed = {}
    /\ ncalls = 0
    /\ \E P \in Plaintexts, K \in Passwords :
        io = [stage |-> "input", P |-> P, K |-> K, iv1 |-> 0, iv2 |-> 0,
              C1 |-> None, C2 |-> None, D1 |-> None, D2 |-> None]

EncryptFirst ==
    /\ io.stage = "input"
    /\ \E iv \in 0..MaxNonce :
        io' = [io EXCEPT !.stage = "first", !.iv1 = iv,
                         !.C1 = security_encrypt_data(io.P, io.K, CRYPTO_AVAILABLE, iv)]
    /\ UNCHANGED << config, file, master_password, CRYPTO_AVAILABLE, op, arg,
                    ret, entered, enc_pw, stored, tampered, confirmed, ncalls >>

EncryptSecond ==
    /\ io.stage = "first"
    /\ \E iv \in 0..MaxNonce :
        io' = [io EXCEPT !.stage = "second", !.iv2 = iv,
                         !.C2 = security_encrypt_data(io.P, io.K, CRYPTO_AVAILABLE, iv)]
    /\ UNCHANGED << config, file, master_password, CRYPTO_AVAILABLE, op, arg,
                    ret, entered, enc_pw, stored, tampered, confirmed, ncalls >>

DecryptBoth ==
    /\ io.stage = "second"
    /\ io' = [io EXCEPT !.stage = "decrypted",
                        !.D1 = security_decrypt_data(io.C1, io.K, CRYPTO_AVAILABLE),
                        !.D2 = security_decrypt_data(io.C2, io.K, CRYPTO_AVAILABLE)]
    /\ UNCHANGED << config, file, master_password, CRYPTO_AVAILABLE, op, arg,
                    ret, entered, enc_pw, stored, tampered, confirmed, ncalls >>

NextTwice ==
    \/ EncryptFirst
    \/ EncryptSecond
    \/ DecryptBoth

SpecTwice == InitTwice /\ [][NextTwice]_vars

\* ------------------------------------------------------------------------
\* validate_api_key_format called on its own (as tests/test_security.py
\* does) with candidate strings around the 20-character threshold.
\* ------------------------------------------------------------------------

\* Longest run of letters in a candidate.
MaxLetters == 21

\* n times the letter 'a'.
Letters(n) == [i \in 1..n |-> 97] \o << >>

\* What a candidate starts with: nothing, ' ', '-'.
CandidateHeads == { <<>>, << 32 >>, << 45 >> }

\* What a candidate ends with: nothing, '-', '_', '--', '-_-', ' ', '!',
\* '1', 'Z'.
CandidateTails == { <<>>, << 45 >>, << 95 >>, << 45, 45 >>, << 45, 95, 45 >>,
                    << 32 >>, << 33 >>, << 49 >>, << 90 >> }

\* The candidates: None, the API keys above, and the composed strings.
Candidates ==
    { None, KeyA, KeyB, KeyShort }
        \cup { h \o Letters(n) \o t :
                h \in CandidateHeads, n \in 0..MaxLetters, t \in CandidateTails }

InitValidate ==
    /\ file = NoFile
    /\ config = load_config(NoFile)
    /\ master_password = None
    /\ CRYPTO_AVAILABLE \in BOOLEAN
    /\ op = "init"
    /\ arg \in Candidates
    /\ ret = None
    /\ entered = <<>>
    /\ enc_pw = None
    /\ stored = NoCred
    /\ tampered = "no"
    /\ confirmed = {}
    /\ ncalls = 0
    /\ io = NoIO

ValidateApiKeyFormat ==
    /\ op = "init"
    /\ op' = "validate_api_key_format"
    /\ ret' = validate_api_key_format(arg)
    /\ UNCHANGED << config, file, master_password, CRYPTO_AVAILABLE, arg,
                    entered, enc_pw, stored, tampered, confirmed, ncalls, io >>

NextValidate == ValidateApiKeyFormat

SpecValidate == InitValidate /\ [][NextValidate]_vars

\* ------------------------------------------------------------------------
\* hash_string called on its own (as tests/test_security.py does): twice on
\* X and once on Y.
\* ------------------------------------------------------------------------

\* The strings handed to hash_string.
HashInputs == Plaintexts \cup Passwords

InitHash ==
    /\ file = NoFile
    /\ config = load_config(NoFile)
    /\ master_password = None
    /\ CRYPTO_AVAILABLE \in BOOLEAN
    /\ op = "init"
    /\ arg = None
    /\ ret = None
    /\ entered = <<>>
    /\ enc_pw = None
    /\ stored = NoCred
    /\ tampered = "no"
    /\ confirmed = {}
    /\ ncalls = 0
    /\ \E X \in HashInputs, Y \in HashInputs :
        io = [stage |-> "input", X |-> X, Y |-> Y,
              hash1 |-> None, hash2 |-> None, hash3 |-> None]

HashString ==
    /\ io.stage = "input"
    /\ io' = [io EXCEPT !.stage = "hashed",
                        !.hash1 = hash_string(io.X),
                        !.hash2 = hash_string(io.X),
                        !.hash3 = hash_string(io.Y)]
    /\ UNCHANGED << config, file, master_password, CRYPTO_AVAILABLE, op, arg,
                    ret, entered, enc_pw, stored, tampered, confirmed, ncalls >>

NextHash == HashString

SpecHash == InitHash /\ [][NextHash]_vars

\* ------------------------------------------------------------------------
\* A stored credential that is edited on disk and then read back.
\* ------------------------------------------------------------------------

\* A run with cryptography available has stored API key P under passphrase
\* K (set_api_key returned True); the current run has loaded that file.
\* ------------------------------------------------------------------------
\* Wiping: set_api_key and wipe_config on one downloader, with the file
\* operations of the last wipe_config kept in io.
\* ------------------------------------------------------------------------

WipeConfigTraced ==
    \E line \in Lines :
    \E fault \in WipeMeets(file, line) :
        \E r \in { wipe_config(config, file, master_password, line, fault) } :
            /\ config' = r.config
            /\ file' = r.file
            /\ master_password' = r.mp
            /\ op' = "wipe_config"
            /\ arg' = line
            /\ ret' = r.ret
            /\ entered' = <<>>
            /\ enc_pw' = None
            /\ stored' = IF r.ret THEN NoCred ELSE stored
            /\ tampered' = IF r.ret THEN "no" ELSE tampered
            /\ ncalls' = Bump(ncalls)
            /\ io' = [stage |-> "wiped", before |-> file, ops |-> r.ops,
                      unlinked |-> r.unlinked]
            /\ UNCHANGED << CRYPTO_AVAILABLE, confirmed >>

\* A command that uses neither self.config nor the passphrase: what it
\* unlinks is all it does to the state.
OtherCommand(name, a, r, patterns) ==
    /\ file' = Unlinked(file, patterns)
    /\ op' = name
    /\ arg' = a
    /\ ret' = r
    /\ entered' = <<>>
    /\ enc_pw' = None
    /\ ncalls' = Bump(ncalls)
    /\ UNCHANGED << config, master_password, CRYPTO_AVAILABLE, stored, tampered,
                    confirmed, io >>

\* main: cache-clear [type]
ClearCacheCommand ==
    \E cache_type \in CacheTypes :
        OtherCommand("clear_cache_command", cache_type, None,
                     clear_cache(IF cache_type = "none" THEN "all"
                                 ELSE cache_type))

\* main: logs-clear
ClearLogsCommand ==
    \E line \in Lines :
        \E r \in { clear_logs_command(line) } :
            OtherCommand("clear_logs_command", line, r.ret, r.unlinks)

\* main: config
ShowConfig ==
    OtherCommand("show_config", None, None, show_config_unlinks)

\* validate, download, download-date, dates and metadata each call
\* get_api_key and use self.config, the file and the passphrase in no other
\* way: GetApiKey is their step.
NextWipe ==
    \/ SetApiKey
    \/ GetApiKey
    \/ WipeConfigTraced
    \/ ClearCacheCommand
    \/ ClearLogsCommand
    \/ ShowConfig

SpecWipe == Init /\ [][NextWipe]_vars

\* ------------------------------------------------------------------------
\* Permissions: set_api_key and wipe_config on a POSIX host, with the modes
\* of CONFIG_DIR and CONFIG_FILE and the steps of the last save_config kept
\* in io.
\* ------------------------------------------------------------------------

InitPerms ==
    /\ file = NoFile
    /\ config = load_config(NoFile)
    /\ master_password = None
    /\ CRYPTO_AVAILABLE \in BOOLEAN
    /\ op = "init"
    /\ arg = None
    /\ ret = None
    /\ entered = <<>>
    /\ enc_pw = None
    /\ stored = NoCred
    /\ tampered = "no"
    /\ confirmed = {}
    /\ ncalls = 0
    /\ \E umask \in Umasks :
        io = [stage |-> "fs", umask |-> umask, dexists |-> FALSE, dmode |-> {},
              fmode |-> {}, steps |-> <<>>]

SetApiKeyModes ==
    \E api_key \in ApiKeys :
    \E e1 \in Typed(SetPrompts(master_password, CRYPTO_AVAILABLE, api_key)) :
    \E e2 \in Typed(SetPrompts(master_password, CRYPTO_AVAILABLE, api_key)
                    /\ e1 # Interrupt) :
    \E iv \in IF SetEncrypts(master_password, CRYPTO_AVAILABLE, api_key, e1, e2)
               THEN 0..MaxIV ELSE { 0 } :
    \E writable \in IF SetSaves(master_password, CRYPTO_AVAILABLE, api_key, e1, e2)
                     THEN BOOLEAN ELSE { FALSE } :
    \E dir_chmod \in IF writable THEN BOOLEAN ELSE { TRUE } :
    \E file_chmod \in IF writable THEN BOOLEAN ELSE { TRUE } :
        \E r \in { set_api_key(config, file, master_password, CRYPTO_AVAILABLE,
                               api_key, e1, e2, iv, writable) } :
        \E steps \in { save_config_steps(io, file.kind # "absent",
                                          "encrypted_api_key" \in DOMAIN file.obj,
                                          "encrypted_api_key" \in DOMAIN r.config,
                                          io.umask, writable, dir_chmod,
                                          file_chmod) } :
            /\ config' = r.config
            /\ file' = r.file
            /\ master_password' = r.mp
            /\ op' = "set_api_key"
            /\ arg' = api_key
            /\ ret' = r.ret
            /\ entered' = r.entered
            /\ enc_pw' = r.enc_pw
            /\ stored' = IF r.ret /\ CRYPTO_AVAILABLE
                         THEN [P |-> strip(api_key), K |-> r.enc_pw,
                               C |-> r.config["encrypted_api_key"]]
                         ELSE stored
            /\ tampered' = IF r.ret /\ CRYPTO_AVAILABLE THEN "no" ELSE tampered
            /\ confirmed' = IF Len(r.entered) = 2 /\ r.mp = r.entered[1]
                               /\ r.entered[1] = r.entered[2]
                            THEN confirmed \cup { r.mp } ELSE confirmed
            /\ ncalls' = Bump(ncalls)
            /\ io' = IF steps = <<>> THEN [io EXCEPT !.stage = "fs", !.steps = <<>>]
                      ELSE [io EXCEPT !.stage = "saved",
                                      !.dexists = TRUE,
                                      !.dmode = steps[Len(steps)].dmode,
                                      !.fmode = steps[Len(steps)].fmode,
                                      !.steps = steps]
            /\ UNCHANGED CRYPTO_AVAILABLE

NextPerms ==
    \/ SetApiKeyModes
    \/ WipeConfig

SpecPerms == InitPerms /\ [][NextPerms]_vars

\* ------------------------------------------------------------------------
\* The command line: one run of main on the arguments in io.argv.
\* ------------------------------------------------------------------------

\* 'API=<key>'
ApiAssignment(key) == << 65, 80, 73, EqualsChar >> \o key

\* python main.py set API=<key>: two arguments, as the help text gives it.
DocumentedSet(key) == << SetPrefix, ApiAssignment(key) >>

\* python main.py "set API=<key>": one argument.
QuotedSet(key) == << SetApiName \o << EqualsChar >> \o key >>

\* python main.py "set API = <key> ": one argument with spaces.
SpacedSet(key) == << SetApiName \o << 32, EqualsChar, 32 >> \o key \o << 32 >> >>

\* The command lines: the three forms for each key, no argument, help, a
\* bare set, "set API=" without a key, "setAPI=<key>", and three arguments.
Argvs ==
    { DocumentedSet(key) : key \in ApiKeys }
    \cup { QuotedSet(key) : key \in ApiKeys }
    \cup { SpacedSet(key) : key \in ApiKeys }
    \cup { <<>>, << HelpCommand >>, << SetPrefix >>, QuotedSet(<<>>),
           << SetPrefix \o ApiAssignment(KeyA) >>,
           << SetPrefix, ApiAssignment(KeyA), HelpCommand >> }

InitCli ==
    /\ file = NoFile
    /\ config = load_config(NoFile)
    /\ master_password = None
    /\ CRYPTO_AVAILABLE \in BOOLEAN
    /\ op = "init"
    /\ arg = None
    /\ ret = None
    /\ entered = <<>>
    /\ enc_pw = None
    /\ stored = NoCred
    /\ tampered = "no"
    /\ confirmed = {}
    /\ ncalls = 0
    /\ \E argv \in Argvs :
        io = [stage |-> "argv", argv |-> argv, call |-> "none", api_key |-> None]

\* main on a command line of the 'set' branch that reaches set_api_key.
MainSetApiKey ==
    /\ io.stage = "argv"
    /\ \E m \in { main(io.argv) } :
        /\ m.call = "set_api_key"
        /\ \E e1 \in Typed(SetPrompts(master_password, CRYPTO_AVAILABLE, m.api_key)) :
           \E e2 \in Typed(SetPrompts(master_password, CRYPTO_AVAILABLE, m.api_key)
                           /\ e1 # Interrupt) :
           \E iv \in IF SetEncrypts(master_password, CRYPTO_AVAILABLE, m.api_key,
                                     e1, e2)
                      THEN 0..MaxIV ELSE { 0 } :
           \E writable \in IF SetSaves(master_password, CRYPTO_AVAILABLE, m.api_key,
                                        e1, e2)
                            THEN BOOLEAN ELSE { TRUE } :
           \E r \in { set_api_key(config, file, master_password, CRYPTO_AVAILABLE,
                                  m.api_key, e1, e2, iv, writable) } :
                /\ config' = r.config
                /\ file' = r.file
                /\ master_password' = r.mp
                /\ op' = "set_api_key"
                /\ arg' = m.api_key
                /\ ret' = r.ret
                /\ entered' = r.entered
                /\ enc_pw' = r.enc_pw
                /\ stored' = IF r.ret /\ CRYPTO_AVAILABLE
                             THEN [P |-> strip(m.api_key), K |-> r.enc_pw,
                                   C |-> r.config["encrypted_api_key"]]
                             ELSE stored
                /\ tampered' = IF r.ret /\ CRYPTO_AVAILABLE THEN "no" ELSE tampered
                /\ confirmed' = IF Len(r.entered) = 2 /\ r.mp = r.entered[1]
                                   /\ r.entered[1] = r.entered[2]
                                THEN confirmed \cup { r.mp } ELSE confirmed
                /\ ncalls' = Bump(ncalls)
                /\ io' = [io EXCEPT !.stage = "ran", !.call = m.call,
                                    !.api_key = m.api_key]
                /\ UNCHANGED CRYPTO_AVAILABLE

\* main on a command line that only prints: the help text, the usage error
\* of argparse, or 'Invalid set command'.
MainPrints ==
    /\ io.stage = "argv"
    /\ \E m \in { main(io.argv) } :
        /\ m.call \in { "show_help", "usage_error", "invalid_set" }
        /\ op' = m.call
        /\ arg' = None
        /\ ret' = None
        /\ io' = [io EXCEPT !.stage = "ran", !.call = m.call]
        /\ UNCHANGED << config, file, master_password, CRYPTO_AVAILABLE, entered,
                        enc_pw, stored, tampered, confirmed, ncalls >>

NextCli ==
    \/ MainSetApiKey
    \/ MainPrints

SpecCli == InitCli /\ [][NextCli]_vars

\* ------------------------------------------------------------------------
\* Downloading: set_api_key, then one download or download-date command.
\* io holds the --no-cache flag, the output directory and the cache before
\* and after the command, and the hosts that were asked.
\* ------------------------------------------------------------------------

\* The values of --filename: not given, 'a.png', 'A.PNG', 'b' and '../c'.
FilenameArgs ==
    { None, << 97, 46, 112, 110, 103 >>, << 65, 46, 80, 78, 71 >>, << 98 >>, << 46, 46, 47, 99 >> }

\* datetime.now().strftime("%Y%m%d_%H%M%S") at the download.
Timestamps == { << 50, 48, 50, 53, 48, 49, 49, 53, 95, 49, 50, 48, 48, 48, 48 >> }

\* What the request to api.nasa.gov gives; 'epic_1b' is the image name.
Listings ==
    { [status |-> "error", image |-> None], [status |-> "empty", image |-> None],
      [status |-> "ok", image |-> << 101, 112, 105, 99, 95, 49, 98 >>] }

\* What the request for the image gives: an error, an empty body, a body in
\* one chunk, and the same body in chunks with an empty chunk between.
ImageResponses ==
    { [status |-> "error", chunks |-> <<>>],
      [status |-> "ok", chunks |-> <<>>],
      [status |-> "ok", chunks |-> << << 137, 80, 78, 71 >> >>],
      [status |-> "ok", chunks |-> << << 137, 80 >>, <<>>, << 78, 71 >> >>] }

InitDownload ==
    /\ file = NoFile
    /\ config = load_config(NoFile)
    /\ master_password = None
    /\ CRYPTO_AVAILABLE \in BOOLEAN
    /\ op = "init"
    /\ arg = None
    /\ ret = None
    /\ entered = <<>>
    /\ enc_pw = None
    /\ stored = NoCred
    /\ tampered = "no"
    /\ confirmed = {}
    /\ ncalls = 0
    /\ io = [stage |-> "idle", no_cache |-> FALSE, name |-> None,
             before |-> [out |-> EmptyDir, cache |-> EmptyCache],
             fs |-> [out |-> EmptyDir, cache |-> EmptyCache],
             requests |-> <<>>]

\* set_api_key before the download command.
SetApiKeyBefore ==
    /\ io.stage = "idle"
    /\ SetApiKey

\* main: download [--no-cache] [--filename F] and download-date D
\* [--no-cache] [--filename F], with a date D that strptime accepts.
Download ==
    /\ io.stage = "idle"
    /\ \E method \in { "download_latest", "download_by_date" } :
       \E no_cache \in BOOLEAN :
       \E filename \in FilenameArgs :
       \E timestamp \in Timestamps :
       \E e1 \in Typed(GetPrompts(config, master_password, CRYPTO_AVAILABLE)) :
       \E g \in { get_api_key(config, file, master_password, CRYPTO_AVAILABLE, e1) } :
       \E listing \in IF Truthy(g.ret) THEN Listings
                      ELSE { [status |-> "error", image |-> None] } :
       \E image \in IF Truthy(g.ret) /\ listing.status = "ok" THEN ImageResponses
                    ELSE { [status |-> "error", chunks |-> <<>>] } :
       \E writable \in IF Truthy(g.ret) /\ listing.status = "ok"
                          /\ image.status = "ok"
                       THEN BOOLEAN ELSE { TRUE } :
       \E d \in { download(io.fs, g.ret, no_cache, filename, timestamp, listing,
                           image, writable) } :
            /\ config' = g.config
            /\ file' = g.file
            /\ master_password' = g.mp
            /\ op' = method
            /\ arg' = filename
            /\ ret' = d.ret
            /\ entered' = g.entered
            /\ enc_pw' = None
            /\ ncalls' = Bump(ncalls)
            /\ io' = [stage |-> "downloaded", no_cache |-> no_cache,
                      name |-> d.name, before |-> io.fs, fs |-> d.fs,
                      requests |-> d.requests]
            /\ UNCHANGED << CRYPTO_AVAILABLE, stored, tampered, confirmed >>

NextDownload ==
    \/ SetApiKeyBefore
    \/ Download

SpecDownload == InitDownload /\ [][NextDownload]_vars

\* ------------------------------------------------------------------------
\* The cache on its own: save_image_to_cache, clear_cache, get_cache_stats
\* on one CacheManager.  io holds the cache before and after the last call,
\* the arguments of the call and the unlinks that failed.
\* ------------------------------------------------------------------------

\* 'a.png'
NamePng == << 97, 46, 112, 110, 103 >>

\* 'A.PNG'
NameUpperPng == << 65, 46, 80, 78, 71 >>

\* 'sub/x.png'
NameInSubdir == << 115, 117, 98, 47, 120, 46, 112, 110, 103 >>

\* 't.jpg'
NameJpg == << 116, 46, 106, 112, 103 >>

\* 'test.json', the metadata file test_clear_cache writes.
NameJson == << 116, 101, 115, 116, 46, 106, 115, 111, 110 >>

\* The image_data arguments: None, b'' and b'\x89P\n'.
ImageDatas == { None, <<>>, << 137, 80, 10 >> }

\* The filename arguments: None, '', 'a.png', 'A.PNG', 'sub/x.png' and '..'.
CacheFilenames == { None, <<>>, NamePng, NameUpperPng, NameInSubdir, << 46, 46 >> }

\* 'date'
DateKey == << 100, 97, 116, 101 >>

\* 'note'
NoteKey == << 110, 111, 116, 101 >>

\* The metadata arguments: None, {} and
\* {'date': '2024-01-15', 'note': 'a"b\\c\n\x01'}.
Metadatas ==
    { NoMetadata, Dict(EmptyConfig, <<>>),
      Dict(Put(Put(EmptyConfig, DateKey, << 50, 48, 50, 52, 45, 48, 49, 45, 49, 53 >>),
               NoteKey, << 97, 34, 98, 92, 99, 10, 1 >>),
           << DateKey, NoteKey >>) }

\* The cache_type arguments of clear_cache; 'cache', 'IMAGES' and '' are
\* none of the types.
ClearTypes == CacheTypes \cup { "cache", "IMAGES", "" }

\* No unlink fails.
NoneStuck == [d \in CacheDirs |-> {}]

\* io with the cache before and after a call, and no arguments or results.
CacheCall(before, cache) ==
    [stage |-> "cache", cache |-> cache, before |-> before,
     D |-> None, F |-> None, M |-> NoMetadata, type |-> "all",
     stuck |-> NoneStuck, path |-> None, count |-> 0]

InitCache ==
    /\ file = NoFile
    /\ config = load_config(NoFile)
    /\ master_password = None
    /\ CRYPTO_AVAILABLE = TRUE
    /\ op = "init"
    /\ arg = None
    /\ ret = None
    /\ entered = <<>>
    /\ enc_pw = None
    /\ stored = NoCred
    /\ tampered = "no"
    /\ confirmed = {}
    /\ ncalls = 0
    /\ io = CacheCall(EmptyCache, EmptyCache)

\* cache_manager.save_image_to_cache(D, F, M)
SaveImageToCache ==
    /\ io.stage = "cache"
    /\ \E D \in ImageDatas, F \in CacheFilenames, M \in Metadatas :
       \E r \in { save_image_to_cache(io.cache, D, F, M) } :
            /\ op' = "save_image_to_cache"
            /\ io' = [CacheCall(io.cache, r.cache) EXCEPT
                          !.D = D, !.F = F, !.M = M, !.path = r.ret]
    /\ UNCHANGED << config, file, master_password, CRYPTO_AVAILABLE, arg, ret,
                    entered, enc_pw, stored, tampered, confirmed, ncalls >>

\* A file written into a directory of the cache by its path, as
\* test_clear_cache writes test.png and test.json: a thumbnail, or a
\* metadata file.
WriteFile ==
    /\ io.stage = "cache"
    /\ \E w \in { [d |-> "thumbnails", name |-> NameJpg],
                  [d |-> "metadata", name |-> NameJson] } :
            /\ op' = "write_text"
            /\ io' = CacheCall(io.cache,
                               [io.cache EXCEPT ![w.d] = Put(@, w.name, << 116 >>)])
    /\ UNCHANGED << config, file, master_password, CRYPTO_AVAILABLE, arg, ret,
                    entered, enc_pw, stored, tampered, confirmed, ncalls >>

\* cache_manager.clear_cache(cache_type); the unlink of a.png and of t.jpg
\* may raise OSError.
ClearCache ==
    /\ io.stage = "cache"
    /\ \E cache_type \in ClearTypes :
       \E stuck_png \in SUBSET (ClearTargets(io.cache, "images", cache_type)
                                \cap { NamePng }) :
       \E stuck_jpg \in SUBSET (ClearTargets(io.cache, "thumbnails", cache_type)
                                \cap { NameJpg }) :
       \E stuck \in { [NoneStuck EXCEPT !["images"] = stuck_png,
                                        !["thumbnails"] = stuck_jpg] } :
       \E r \in { clear_cache_run(io.cache, cache_type, stuck) } :
            /\ op' = "clear_cache"
            /\ io' = [CacheCall(io.cache, r.cache) EXCEPT
                          !.type = cache_type, !.stuck = stuck, !.count = r.ret]
    /\ UNCHANGED << config, file, master_password, CRYPTO_AVAILABLE, arg, ret,
                    entered, enc_pw, stored, tampered, confirmed, ncalls >>

NextCache ==
    \/ SaveImageToCache
    \/ WriteFile
    \/ ClearCache

SpecCache == InitCache /\ [][NextCache]_vars

\* ------------------------------------------------------------------------
\* The config file as text: entries set on self.config, save_config, a new
\* EarthImageDownloader, and the file replaced from outside.  io holds
\* self.config (dict), CONFIG_FILE (disk), the config of the last save that
\* returned True (saved) and whether the file is still as that save left it.
\* ------------------------------------------------------------------------

\* 'test_key'
TestKey == << 116, 101, 115, 116, 95, 107, 101, 121 >>

\* 'api_key'
ApiKeyKey == << 97, 112, 105, 95, 107, 101, 121 >>

\* The values set: 'test_value', '', ' x ' and 'a"b\\c\n\x01'.
ConfigValues ==
    { << 116, 101, 115, 116, 95, 118, 97, 108, 117, 101 >>, <<>>, << 32, 120, 32 >>,
      << 97, 34, 98, 92, 99, 10, 1 >> }

\* What the file is replaced by: removed, '', ' \n', 'not json', '{', and
\* '{"test_key": "test_value"' without its closing brace.
ForeignFiles ==
    { NoTextFile, TextFile(<<>>), TextFile(<< 32, 10 >>),
      TextFile(<< 110, 111, 116, 32, 106, 115, 111, 110 >>), TextFile(<< 123 >>),
      TextFile(<< 123, 34, 116, 101, 115, 116, 95, 107, 101, 121, 34, 58, 32, 34, 116,
                  101, 115, 116, 95, 118, 97, 108, 117, 101, 34 >>) }

InitConfig ==
    /\ file = NoFile
    /\ config = load_config(NoFile)
    /\ master_password = None
    /\ CRYPTO_AVAILABLE = TRUE
    /\ op = "init"
    /\ arg = None
    /\ ret = None
    /\ entered = <<>>
    /\ enc_pw = None
    /\ stored = NoCred
    /\ tampered = "no"
    /\ confirmed = {}
    /\ ncalls = 0
    /\ io = [stage |-> "config", dict |-> load_config_from_text(NoTextFile),
             disk |-> NoTextFile, saved |-> EmptyConfig, intact |-> FALSE]

\* downloader.config[key] = value
SetItem ==
    /\ io.stage = "config"
    /\ \E key \in { TestKey, ApiKeyKey }, value \in ConfigValues :
            /\ op' = "setitem"
            /\ ret' = None
            /\ io' = [io EXCEPT !.dict = PutInOrder(@, key, value)]
    /\ UNCHANGED << config, file, master_password, CRYPTO_AVAILABLE, arg,
                    entered, enc_pw, stored, tampered, confirmed, ncalls >>

\* downloader.save_config()
SaveConfigText ==
    /\ io.stage = "config"
    /\ \E writable \in BOOLEAN :
       \E sv \in { save_config_as_text(io.dict, io.disk, writable) } :
            /\ op' = "save_config"
            /\ ret' = sv.ok
            /\ io' = [io EXCEPT !.disk = sv.file,
                                !.saved = IF sv.ok THEN io.dict.obj ELSE @,
                                !.intact = IF sv.ok THEN TRUE ELSE @]
    /\ UNCHANGED << config, file, master_password, CRYPTO_AVAILABLE, arg,
                    entered, enc_pw, stored, tampered, confirmed, ncalls >>

\* EarthImageDownloader(): self.config = self.load_config()
NewDownloader ==
    /\ io.stage = "config"
    /\ op' = "__init__"
    /\ ret' = None
    /\ io' = [io EXCEPT !.dict = load_config_from_text(io.disk)]
    /\ UNCHANGED << config, file, master_password, CRYPTO_AVAILABLE, arg,
                    entered, enc_pw, stored, tampered, confirmed, ncalls >>

\* The file is removed or replaced by text that is not a config.
ReplaceFile ==
    /\ io.stage = "config"
    /\ \E f \in ForeignFiles :
            /\ op' = "replace"
            /\ ret' = None
            /\ io' = [io EXCEPT !.disk = f, !.intact = FALSE]
    /\ UNCHANGED << config, file, master_password, CRYPTO_AVAILABLE, arg,
                    entered, enc_pw, stored, tampered, confirmed, ncalls >>

NextConfig ==
    \/ SetItem
    \/ SaveConfigText
    \/ NewDownloader
    \/ ReplaceFile

SpecConfig == InitConfig /\ [][NextConfig]_vars

\* ------------------------------------------------------------------------
\* The commands that ask api.nasa.gov: a record may be stored and edited on
\* disk, then one of validate_api_key, download_latest, download_by_date,
\* show_metadata and get_available_dates runs.  io holds the key that
\* get_api_key yielded and the hosts that were asked.
\* ------------------------------------------------------------------------

\* '2024-01-15'
Date15 == << 50, 48, 50, 52, 45, 48, 49, 45, 49, 53 >>

\* The date arguments: '2024-01-15' and 'today'.
DateArgs == { Date15, << 116, 111, 100, 97, 121 >> }

\* What the request to api.nasa.gov gives the commands that list: an error,
\* an empty list, and a list of one entry.
ApiResponses ==
    { [status |-> "error", data |-> <<>>], [status |-> "ok", data |-> <<>>],
      [status |-> "ok", data |-> << Date15 >>] }

NetworkMethods ==
    { "validate_api_key", "download_latest", "download_by_date", "show_metadata",
      "get_available_dates" }

\* Nothing is configured, or an earlier run stored KeyA under 'passw0rd'
\* with cryptography available.
InitNetwork ==
    /\ \/ /\ file = NoFile
          /\ config = load_config(NoFile)
          /\ stored = NoCred
          /\ confirmed = {}
       \/ \E iv \in 0..MaxIV :
          \E r \in { set_api_key(EmptyConfig, NoFile, None, TRUE,
                                 KeyA, PwA, PwA, iv, TRUE) } :
            /\ file = r.file
            /\ config = load_config(r.file)
            /\ stored = [P |-> KeyA, K |-> PwA, C |-> r.config["encrypted_api_key"]]
            /\ confirmed = { PwA }
    /\ master_password = None
    /\ CRYPTO_AVAILABLE \in BOOLEAN
    /\ op = "init"
    /\ arg = None
    /\ ret = None
    /\ entered = <<>>
    /\ enc_pw = None
    /\ tampered = "no"
    /\ ncalls = 0
    /\ io = [stage |-> "idle", key |-> None, requests |-> <<>>]

\* The record is edited on disk before the command runs: its key_hash, or
\* the first character of its encrypted_api_key.
TamperBefore ==
    /\ io.stage = "idle"
    /\ \/ TamperHash
       \/ /\ TamperCipher
          /\ file'.obj["encrypted_api_key"][1] # file.obj["encrypted_api_key"][1]

\* What the command returns and the hosts it asks, given what get_api_key
\* returned and what the servers answer.
network_call(method, api_key, date, response, image, writable) ==
    CASE method = "validate_api_key" -> validate_api_key(api_key, response)
      [] method = "get_available_dates" -> get_available_dates(api_key, response)
      [] method = "show_metadata" -> show_metadata(api_key, date, response)
      [] method = "download_latest" ->
            With(download([out |-> EmptyDir, cache |-> EmptyCache], api_key, FALSE,
                          None, CHOOSE t \in Timestamps : TRUE,
                          IF response.data = <<>>
                          THEN [status |-> IF response.status = "ok" THEN "empty"
                                           ELSE "error", image |-> None]
                          ELSE [status |-> "ok", image |-> response.data[1]],
                          image, writable),
                 LAMBDA d : [ret |-> d.ret, requests |-> d.requests])
      [] method = "download_by_date" ->
            With(download_by_date([out |-> EmptyDir, cache |-> EmptyCache], api_key,
                                  date, FALSE, None, CHOOSE t \in Timestamps : TRUE,
                                  IF response.data = <<>>
                                  THEN [status |-> IF response.status = "ok" THEN "empty"
                                                   ELSE "error", image |-> None]
                                  ELSE [status |-> "ok", image |-> response.data[1]],
                                  image, writable),
                 LAMBDA d : [ret |-> d.ret, requests |-> d.requests])

\* One of the five commands: get_api_key first, then the requests.
NetworkCall ==
    /\ io.stage = "idle"
    /\ \E e1 \in Typed(GetPrompts(config, master_password, CRYPTO_AVAILABLE)) :
       \E g \in { get_api_key(config, file, master_password, CRYPTO_AVAILABLE, e1) } :
       \E method \in NetworkMethods :
       \E date \in IF method \in { "download_by_date", "show_metadata" }
                   THEN DateArgs \cup (IF method = "show_metadata" THEN { None } ELSE {})
                   ELSE { None } :
       \E response \in IF Truthy(g.ret) THEN ApiResponses
                       ELSE { [status |-> "error", data |-> <<>>] } :
       \E image \in IF Truthy(g.ret) /\ response.data # <<>>
                       /\ method \in { "download_latest", "download_by_date" }
                    THEN { [status |-> "error", chunks |-> <<>>],
                           [status |-> "ok", chunks |-> << << 137, 80, 78, 71 >> >>] }
                    ELSE { [status |-> "error", chunks |-> <<>>] } :
       \E c \in { network_call(method, g.ret, date, response, image, TRUE) } :
            /\ config' = g.config
            /\ file' = g.file
            /\ master_password' = g.mp
            /\ op' = method
            /\ arg' = date
            /\ ret' = c.ret
            /\ entered' = g.entered
            /\ enc_pw' = None
            /\ ncalls' = Bump(ncalls)
            /\ io' = [stage |-> "called", key |-> g.ret, requests |-> c.requests]
            /\ UNCHANGED << CRYPTO_AVAILABLE, stored, tampered, confirmed >>

NextNetwork ==
    \/ TamperBefore
    \/ NetworkCall

SpecNetwork == InitNetwork /\ [][NextNetwork]_vars

\* ------------------------------------------------------------------------
\* The name of the file _download_image writes, for --filename values made
\* of a short string over the characters below followed by one of the
\* endings.  arg is the value of --filename and ret the name.
\* ------------------------------------------------------------------------

\* Longest string in front of the ending.
MaxStem == 2

\* 'a', 'Z', '7', '.', '/', '\', ' ', '-' and '_'.
NameChars == { 97, 90, 55, 46, 47, 92, 32, 45, 95 }

\* '', '.png', '.PNG', '.pNg', '.pn', '..' and '/..'.
NameEndings ==
    { <<>>, ExtChars[".png"], << 46, 80, 78, 71 >>, << 46, 112, 78, 103 >>,
      << 46, 112, 110 >>, << 46, 46 >>, << 47, 46, 46 >> }

\* The values of --filename: not given, or a stem and an ending.
FilenameValues ==
    { None } \cup
    { stem \o ending :
        stem \in UNION { [1..n -> NameChars] : n \in 0..MaxStem },
        ending \in NameEndings }

InitFilename ==
    /\ file = NoFile
    /\ config = load_config(NoFile)
    /\ master_password = None
    /\ CRYPTO_AVAILABLE = TRUE
    /\ op = "init"
    /\ arg \in FilenameValues
    /\ ret = None
    /\ entered = <<>>
    /\ enc_pw = None
    /\ stored = NoCred
    /\ tampered = "no"
    /\ confirmed = {}
    /\ ncalls = 0
    /\ io = [stage |-> "filename"]

\* _download_image up to full_path = output_path / filename.
NameOutput ==
    /\ io.stage = "filename"
    /\ op = "init"
    /\ \E timestamp \in Timestamps :
            ret' = output_filename(arg, timestamp)
    /\ op' = "_download_image"
    /\ UNCHANGED << config, file, master_password, CRYPTO_AVAILABLE, arg, entered,
                    enc_pw, stored, tampered, confirmed, ncalls, io >>

NextFilename == NameOutput

SpecFilename == InitFilename /\ [][NextFilename]_vars

InitTamper ==
    /\ \E P \in { KeyA, KeyB }, iv \in 0..MaxIV :
        \E r \in { set_api_key(EmptyConfig, NoFile, None, TRUE,
                               P, PwA, PwA, iv, TRUE) } :
            /\ file = r.file
            /\ config = load_config(r.file)
            /\ stored = [P |-> P, K |-> PwA, C |-> r.config["encrypted_api_key"]]
    /\ master_password = None
    /\ CRYPTO_AVAILABLE = TRUE
    /\ op = "init"
    /\ arg = None
    /\ ret = None
    /\ entered = <<>>
    /\ enc_pw = None
    /\ tampered = "no"
    /\ confirmed = { PwA }
    /\ ncalls = 0
    /\ io = NoIO

\* The first call of a run is get_api_key.
FirstGetApiKey == ncalls = 0 /\ GetApiKey

NextTamper ==
    \/ TamperCipher
    \/ TamperHash
    \/ FirstGetApiKey

SpecTamper == InitTamper /\ [][NextTamper]_vars

\* ------------------------------------------------------------------------
\* Properties
\* ------------------------------------------------------------------------

\* C1: with cryptography available, for every non-empty plaintext P and
\* non-empty passphrase K the ciphertext encrypt_data(P, K) is neither None
\* nor P, and decrypt_data of it under K returns exactly P.
RoundTrip ==
    (CRYPTO_AVAILABLE /\ Truthy(io.P) /\ Truthy(io.K1)) =>
        /\ io.stage \in {"encrypted", "decrypted"} =>
                (io.C # None /\ io.C # io.P)
        /\ (io.stage = "decrypted" /\ io.K2 = io.K1) => io.D = io.P

RoundTripWitness ==
    /\ io.stage = "decrypted"
    /\ CRYPTO_AVAILABLE
    /\ io.P = KeyA
    /\ io.K1 = PwA
    /\ io.K2 = PwA
    /\ io.D = KeyA

\* C2: for every plaintext P and passphrases K1 # K2,
\* decrypt_data(encrypt_data(P, K1), K2) returns None.
WrongPassphraseFails ==
    (io.stage = "decrypted" /\ io.K1 # io.K2) => io.D = None


\* The bytes of the Fernet token that a stored encrypted_api_key string
\* decodes to, or None when one of the two base64 layers does not decode.
TokenBytes(c) ==
    LET outer == urlsafe_b64decode(c) IN
    IF ~outer.ok THEN None
    ELSE LET inner == urlsafe_b64decode(outer.val) IN
         IF inner.ok THEN inner.val ELSE None

\* The run is the first after a one-position edit of encrypted_api_key and
\* get_api_key was given the passphrase the record was stored under.
TamperedCipherRead ==
    /\ op = "get_api_key"
    /\ tampered = "cipher"
    /\ entered = << stored.K >>

\* C3 (as claimed): after any one-position alteration of encrypted_api_key,
\* get_api_key with the correct passphrase returns the empty string.
TamperedCipherFails ==
    TamperedCipherRead => ret = <<>>

\* C3 (amended): after any one-position alteration of encrypted_api_key,
\* get_api_key with the correct passphrase returns the original plaintext
\* when the altered string still decodes to the bytes of the stored token,
\* and the empty string otherwise; it never returns an altered plaintext.
TamperedCipherNeverAltered ==
    TamperedCipherRead =>
        IF TokenBytes(config["encrypted_api_key"]) = TokenBytes(stored.C)
        THEN ret = stored.P
        ELSE ret = <<>>

TamperedCipherWitness ==
    /\ TamperedCipherRead
    /\ TokenBytes(config["encrypted_api_key"]) # TokenBytes(stored.C)
    /\ TokenBytes(config["encrypted_api_key"]) # None
    /\ ret = <<>>

\* get_api_key reached the digest comparison: a record is configured and
\* decrypt_data succeeded under the passphrase entered (or cached).
Decrypted ==
    /\ op = "get_api_key"
    /\ CRYPTO_AVAILABLE
    /\ Truthy(Get(config, "encrypted_api_key"))
    /\ Truthy(master_password)
    /\ security_decrypt_data(config["encrypted_api_key"], master_password, TRUE) # None

\* C4: when the config holds encrypted_api_key and decryption under the
\* entered passphrase succeeds, get_api_key returns the plaintext if its
\* SHA-256 hex digest equals the stored key_hash and the empty string on
\* any mismatch, a missing key_hash included.
IntegrityCheck ==
    Decrypted =>
        LET plain == security_decrypt_data(config["encrypted_api_key"], master_password, TRUE)
        IN  IF Sha256Hex(plain) = Get(config, "key_hash")
            THEN ret = plain
            ELSE ret = <<>>

IntegrityCheckWitness ==
    /\ Decrypted
    /\ tampered = "hash"
    /\ "key_hash" \notin DOMAIN config
    /\ ret = <<>>

\* C5: while cryptography is unavailable, set_api_key does not write the
\* API key in plain text to the config and get_api_key does not return a
\* plain-text key read from the config.
FailClosed ==
    ~CRYPTO_AVAILABLE =>
        /\ op = "set_api_key" =>
                (Get(config, "api_key") # strip(arg)
                 /\ Get(file.obj, "api_key") # strip(arg))
        /\ op = "get_api_key" =>
                (ret = <<>> \/ ret # Get(config, "api_key"))

\* C6: after set_api_key(P) succeeded under passphrase K and the config was
\* saved, a new downloader whose first call is get_api_key and which is
\* given K at the prompt returns exactly P.
EndToEnd ==
    ( /\ op = "get_api_key"
      /\ ncalls = 1
      /\ stored # NoCred
      /\ tampered = "no"
      /\ entered = << stored.K >> ) => ret = stored.P

EndToEndWitness ==
    /\ op = "get_api_key"
    /\ ncalls = 1
    /\ stored.P = KeyA
    /\ stored.K = PwA
    /\ tampered = "no"
    /\ entered = << PwA >>
    /\ ret = KeyA

\* C7: a call of get_api_key leaves the in-memory config and the config file
\* as they were, whatever its outcome.
GetApiKeyReadOnly ==
    [][op' = "get_api_key" => (config' = config /\ file' = file)]_vars

\* get_api_key has failed on a wrong passphrase and has left the stored
\* record in the config and in the file.
GetApiKeyReadOnlyWitness ==
    /\ op = "get_api_key"
    /\ entered = << PwShort >>
    /\ stored.K = PwA
    /\ ret = <<>>
    /\ Get(config, "encrypted_api_key") = stored.C
    /\ Get(file.obj, "encrypted_api_key") = stored.C

\* C8: after get_api_key failed on a wrong passphrase entered at the
\* prompt, the next get_api_key call on the same downloader prompts again.
RePromptAfterFailure ==
    [][( /\ op = "get_api_key"
         /\ ret = <<>>
         /\ Len(entered) = 1
         /\ Truthy(entered[1])
         /\ entered[1] # Interrupt
         /\ entered[1] # stored.K
         /\ op' = "get_api_key"
         /\ ncalls' = 2 ) => entered' # <<>>]_vars

\* C9: every passphrase set_api_key encrypts with was accepted by a prompt
\* that asked for it twice, and has at least 8 characters; a mismatching or
\* shorter passphrase makes set_api_key return False without encrypting.
PassphrasePolicy ==
    op = "set_api_key" =>
        /\ enc_pw # None => (enc_pw \in confirmed /\ Len(enc_pw) >= MinPasswordLen)
        /\ ( /\ Len(entered) = 2
             /\ (entered[1] # entered[2] \/ Len(entered[1]) < MinPasswordLen) )
           => (ret = FALSE /\ enc_pw = None)

\* The values the config file holds.
FileValues == { file.obj[k] : k \in DOMAIN file.obj }

EncryptedTwice ==
    /\ io.stage = "decrypted"
    /\ CRYPTO_AVAILABLE
    /\ Truthy(io.P)
    /\ Truthy(io.K)

Cleaned(api_key) == Remove(Remove(api_key, 45), 95)

\* C12: validate_api_key_format returns True only if the candidate with
\* every '-' and '_' removed has at least 20 characters and is alphanumeric.
ValidateCleanedLength ==
    (op = "validate_api_key_format" /\ ret = TRUE) =>
        (Len(Cleaned(arg)) >= 20 /\ isalnum(Cleaned(arg)))

\* The candidate is white space only.
WhitespaceOnly(api_key) ==
    api_key # <<>> /\ \A i \in 1..Len(api_key) : IsSpace(api_key[i])

\* C13: validate_api_key_format returns False for None, the empty string,
\* white space only and every string of fewer than 20 characters, and True
\* for every string of 20 or more characters that are all letters or digits;
\* it returns a boolean in every case (it does not raise).
ValidateShortAndLong ==
    op = "validate_api_key_format" =>
        /\ ret \in BOOLEAN
        /\ (arg = None \/ arg = <<>> \/ WhitespaceOnly(arg) \/ Len(arg) < 20)
                => ret = FALSE
        /\ (arg # None /\ Len(arg) >= 20
                /\ \A i \in 1..Len(arg) : IsAlnumChar(arg[i])) => ret = TRUE

ValidateShortAndLongWitness ==
    /\ op = "validate_api_key_format"
    /\ arg = KeyShort
    /\ ret = FALSE

\* C14: for every string X, hash_string(X) returns the same digest on every
\* call and never None, and hash_string(X) # hash_string(Y) for X # Y.
HashDeterministicNoCollision ==
    io.stage = "hashed" =>
        /\ io.hash1 # None
        /\ io.hash1 = io.hash2
        /\ io.X # io.Y => io.hash1 # io.hash3

\* C15: encrypt_data and decrypt_data called with an empty or None data
\* argument or an empty or None passphrase return None and make no
\* cryptographic call: no key is derived and the cipher is not invoked.
BadInputRejectedFirst ==
    /\ (io.stage = "encrypted" /\ (~Truthy(io.P) \/ ~Truthy(io.K1)))
            => (io.C = None /\ io.calls = <<>>)
    /\ (io.stage \in { "decrypted", "decrypted_empty" }
            /\ (~Truthy(io.C) \/ ~Truthy(io.K2)))
            => (io.D = None /\ io.calls = <<>>)

\* encrypt_data was given the empty string as its data under a passphrase
\* that is not empty, with cryptography available.
BadInputRejectedFirstWitness ==
    /\ io.stage = "encrypted"
    /\ CRYPTO_AVAILABLE
    /\ io.P = <<>>
    /\ io.K1 = PwA
    /\ io.C = None
    /\ io.calls = <<>>

\* The last call was a wipe_config that the user confirmed and that removed
\* a config file.
ConfirmedWipe ==
    /\ op = "wipe_config"
    /\ io.stage = "wiped"
    /\ Answer(arg) = <<121>>
    /\ io.before.kind = "json"
    /\ file.kind = "absent"

\* C16: on every wipe_config the user confirms with 'y' and that deletes a
\* config file, the content was overwritten with random bytes, flushed and
\* synced before the unlink, and the file that is unlinked does not hold the
\* credential record.
WipeOverwritesBeforeUnlink ==
    ConfirmedWipe =>
        /\ io.ops = << "open", "write", "flush", "fsync", "unlink" >>
        /\ io.unlinked = RandomFile
        /\ "encrypted_api_key" \notin DOMAIN io.unlinked.obj

\* The config file holds the credential record.
RecordOnDisk(f) == f.kind = "json" /\ "encrypted_api_key" \in DOMAIN f.obj

\* C17: a wipe_config answered with anything other than 'y' returns False
\* and leaves the config file, self.config and the cached passphrase as they
\* were, and a step that takes the credential record off the disk is a
\* wipe_config answered with 'y'.
DestroyedOnlyByConfirmedWipe ==
    [][/\ (op' = "wipe_config" /\ Answer(arg') # <<121>>)
            => (ret' = FALSE /\ UNCHANGED << config, file, master_password >>)
       /\ (RecordOnDisk(file) /\ ~RecordOnDisk(file'))
            => (op' = "wipe_config" /\ Answer(arg') = <<121>> /\ ret' = TRUE)]_vars

\* A wipe_config answered 'n' on a downloader that holds the record and a
\* cached passphrase.
DestroyedOnlyByConfirmedWipeWitness ==
    /\ op = "wipe_config"
    /\ arg = << 110 >>
    /\ ret = FALSE
    /\ RecordOnDisk(file)
    /\ "encrypted_api_key" \in DOMAIN config
    /\ master_password = PwA

\* The last call was a set_api_key that returned True with cryptography
\* available.
KeySet == op = "set_api_key" /\ ret = TRUE /\ CRYPTO_AVAILABLE

\* C18: after a set_api_key(P) that returns True with cryptography
\* available the saved config is self.config and holds encrypted_api_key, a
\* ciphertext that decrypts to P under the passphrase used, key_hash equal
\* to hash_string(P), encryption_version "1.0" and no 'api_key' entry.
RecordShape ==
    KeySet =>
        /\ file = JsonFile(config)
        /\ { "encrypted_api_key", "key_hash", "encryption_version" }
                \subseteq DOMAIN file.obj
        /\ security_decrypt_data(file.obj["encrypted_api_key"], enc_pw, TRUE) = arg
        /\ file.obj["key_hash"] = hash_string(arg)
        /\ file.obj["key_hash"] # None
        /\ file.obj["encryption_version"] = << 49, 46, 48 >>
        /\ "api_key" \notin DOMAIN file.obj

\* set_api_key(KeyB) succeeded under "passw0rd" and wrote the three entries
\* of the record.
RecordShapeWitness ==
    /\ KeySet
    /\ arg = KeyB
    /\ enc_pw = PwA
    /\ DOMAIN file.obj = { "encrypted_api_key", "key_hash", "encryption_version" }
    /\ stored.P = KeyB

\* C19: whenever the config file holds a credential record written by
\* save_config, the file has mode 0600 and its directory has mode 0700:
\* after every file system step of save_config at which the record is on
\* disk, the step that ends the call included.
OwnerOnlyModes ==
    (op = "set_api_key" /\ io.stage = "saved") =>
        \A i \in DOMAIN io.steps :
            io.steps[i].record =>
                (io.steps[i].fmode = Mode600 /\ io.steps[i].dmode = Mode700)

\* C20: the program run with the two arguments set and API=<key>, as in
\* the example of the help text, calls set_api_key with <key>.
SetCommandDispatches ==
    \A key \in ApiKeys :
        (io.stage = "ran" /\ io.argv = DocumentedSet(key))
            => (op = "set_api_key" /\ arg = key /\ io.api_key = key)

\* The last command was a download that returned True.
Downloaded ==
    /\ io.stage = "downloaded"
    /\ op \in { "download_latest", "download_by_date" }
    /\ ret = TRUE

\* C21: a download or download-date run with --no-cache that succeeds writes
\* the image to the output directory and adds no file to the cache
\* directory.
NoCacheFlag ==
    (Downloaded /\ io.no_cache) =>
        /\ io.name \in DOMAIN io.fs.out
        /\ io.fs.cache = io.before.cache

\* get_api_key was given a wrong passphrase for the record as it was stored.
WrongPassphraseCase ==
    /\ op = "get_api_key"
    /\ tampered = "no"
    /\ Len(entered) = 1
    /\ Truthy(entered[1])
    /\ entered[1] # Interrupt
    /\ entered[1] # stored.K
    /\ ret = <<>>

\* get_api_key was given the passphrase of the record, whose
\* encrypted_api_key was altered in the file, and did not return the key.
CorruptedCiphertextCase ==
    /\ op = "get_api_key"
    /\ tampered = "cipher"
    /\ entered = << stored.K >>
    /\ ret = <<>>

\* C22: get_api_key with a wrong passphrase and get_api_key with the right
\* passphrase on a corrupted encrypted_api_key have the same outcome: both
\* return '', print the one line decrypt_data prints for a failed
\* authentication, cache the passphrase typed and leave config and file
\* alone.
DecryptFailuresAlike ==
    (WrongPassphraseCase \/ CorruptedCiphertextCase) =>
        /\ ret = <<>>
        /\ master_password = entered[1]
        /\ config = load_config(file)
        /\ decrypt_data_run(config["encrypted_api_key"], entered[1],
                            CRYPTO_AVAILABLE).printed
                = << DecryptionError("") >>

\* save_image_to_cache was called with non-empty data, a non-empty file name
\* and non-empty metadata.
SavedWithAll ==
    /\ io.stage = "cache"
    /\ op = "save_image_to_cache"
    /\ Truthy(io.D) /\ Truthy(io.F) /\ TruthyDict(io.M)

\* The call returned images/F, the file holds D, and metadata/F.json exists
\* and is JSON text of the object M.
CachedRoundTrip ==
    /\ io.path = CachePath(io.F)
    /\ io.F \in DOMAIN io.cache["images"]
    /\ io.cache["images"][io.F] = io.D
    /\ io.F \o ExtChars[".json"] \in DOMAIN io.cache["metadata"]
    /\ json_loads(io.cache["metadata"][io.F \o ExtChars[".json"]])
           = [ok |-> TRUE, obj |-> io.M.obj, order |-> io.M.order]

\* save_image_to_cache was called with empty or None data or file name.
SavedWithNothing ==
    /\ io.stage = "cache"
    /\ op = "save_image_to_cache"
    /\ (~Truthy(io.D) \/ ~Truthy(io.F))

CacheFiles(cache) ==
    UNION { { << d, name >> : name \in ClearTargets(cache, d, "all") } : d \in CacheDirs }

\* The files that were in the cache before the call and are not after it.
Deleted ==
    UNION { { << d, name >> : name \in (DOMAIN io.before[d]) \ (DOMAIN io.cache[d]) } :
            d \in CacheDirs }

\* clear_cache("all") has returned.
ClearedAll == io.stage = "cache" /\ op = "clear_cache" /\ io.type = "all"

\* A clear_cache("all") that follows immediately returns 0, whichever of its
\* unlinks fail.
NextClearReturnsZero ==
    \A stuck \in [CacheDirs -> SUBSET { NamePng, NameJpg }] :
        clear_cache_run(io.cache, "all", stuck).ret = 0

\* C24 as stated: after clear_cache("all") returns, images/ holds no .png
\* file, metadata/ no .json file and thumbnails/ no .jpg file, the count
\* returned is the number of files deleted, and a clear_cache("all") that
\* follows immediately returns 0.
ClearAllEmpties ==
    ClearedAll =>
        /\ CacheFiles(io.cache) = {}
        /\ io.count = Cardinality(Deleted)
        /\ NextClearReturnsZero

\* C24 amended: the count returned is the number of files deleted; the files
\* left are those whose unlink raised OSError; when no unlink raised, no
\* .png, .json or .jpg file is left in its directory and a clear_cache("all")
\* that follows immediately returns 0.
ClearAllEmptiesUnlessStuck ==
    ClearedAll =>
        /\ io.count = Cardinality(Deleted)
        /\ CacheFiles(io.cache)
               = UNION { { << d, name >> : name \in io.stuck[d] } : d \in CacheDirs }
        /\ (io.stuck = NoneStuck) => (CacheFiles(io.cache) = {} /\ NextClearReturnsZero)

\* clear_cache("all") has deleted files of all three directories.
ClearAllEmptiesWitness ==
    /\ ClearedAll
    /\ io.stuck = NoneStuck
    /\ \A d \in CacheDirs : ClearTargets(io.before, d, "all") # {}
    /\ io.count >= 3
    /\ CacheFiles(io.cache) = {}

\* C25: whenever download_latest or download_by_date returns True with
\* caching enabled, the image is at <output_dir>/<filename> and in the cache,
\* get_cache_stats()['images'] counts it and clear_cache("images") removes
\* it, for every filename the download accepts.
DownloadIsCached ==
    (Downloaded /\ ~io.no_cache) =>
        /\ io.name \in DOMAIN io.fs.out
        /\ io.name \in DOMAIN io.fs.cache["images"]
        /\ io.fs.cache["images"][io.name] = io.fs.out[io.name]
        /\ get_cache_stats(io.fs.cache).images
               = get_cache_stats(io.before.cache).images + 1
        /\ io.name \notin
               DOMAIN clear_cache_run(io.fs.cache, "images", NoneStuck).cache["images"]

\* A downloader was constructed.
Constructed == io.stage = "config" /\ op = "__init__"

\* The file is missing, empty (white space only) or not valid JSON.
NoConfigOnDisk == io.disk \in ForeignFiles

\* C26: after save_config returned True, a newly constructed
\* EarthImageDownloader loads a config equal to the one saved; when the file
\* is missing, empty or not valid JSON, load_config returns {}.
ConfigRoundTrip ==
    Constructed =>
        /\ io.intact => io.dict.obj = io.saved
        /\ NoConfigOnDisk => io.dict.obj = EmptyConfig

\* A config with the value that holds a quote, a backslash and control
\* characters was saved and loaded by a new downloader.
ConfigRoundTripWitness ==
    /\ Constructed
    /\ io.intact
    /\ TestKey \in DOMAIN io.dict.obj
    /\ io.dict.obj[TestKey] = << 97, 34, 98, 92, 99, 10, 1 >>
    /\ ApiKeyKey \in DOMAIN io.dict.obj

\* One of the five commands ran and get_api_key yielded no key.
CalledWithoutKey ==
    /\ io.stage = "called"
    /\ op \in NetworkMethods
    /\ ~Truthy(io.key)

\* C27: when get_api_key yields no key, validate_api_key, download_latest,
\* download_by_date and show_metadata return False and get_available_dates
\* returns [], each without an HTTP request.
NoCredentialNoRequest ==
    CalledWithoutKey =>
        /\ io.requests = <<>>
        /\ (op = "get_available_dates") => ret = <<>>
        /\ (op # "get_available_dates") => ret = FALSE

\* A command ran on a record whose ciphertext was edited, the right
\* passphrase was typed, and no key came out.
NoCredentialNoRequestWitness ==
    /\ CalledWithoutKey
    /\ op = "download_by_date"
    /\ arg = Date15
    /\ tampered = "cipher"
    /\ entered = << stored.K >>
    /\ io.requests = <<>>

\* The extension of the files of each type.
TypeExt == [images |-> ".png", metadata |-> ".json", thumbnails |-> ".jpg"]

\* clear_cache(t) has returned.
Cleared(t) == io.stage = "cache" /\ op = "clear_cache" /\ io.type = t

Named == io.stage = "filename" /\ op = "_download_image"

\* C29: for every --filename value the file written is a direct child of
\* the output directory: the sanitised name holds only letters, digits, '.',
\* '_' and '-', holds no path separator, ends in '.png' whatever the case of
\* its letters, and is neither '.' nor '..'.
DownloadPathConfined ==
    Named =>
        /\ \A i \in 1..Len(ret) : IsFilenameChar(ret[i])
        /\ \A i \in 1..Len(ret) : ret[i] \notin { PathSeparator, BackslashChar }
        /\ EndsWith(Lower(ret), ExtChars[".png"])
        /\ ret \notin DotNames
        /\ PlainName(ret)

\* The value '../..' was given and the name is '.....png'.
DownloadPathConfinedWitness ==
    /\ Named
    /\ arg = << 46, 46, 47, 46, 46 >>
    /\ ret = << 46, 46, 46, 46 >> \o ExtChars[".png"]

\* C30: whenever set_api_key returns False, the in-memory config and the
\* config file are the same as before the call.
SetApiKeyAllOrNothing ==
    [][(op' = "set_api_key" /\ ret' = FALSE) => (config' = config /\ file' = file)]_vars

====
